---- MODULE Spec2Model ----
(***************************************************************************)
(* Order lifecycle and assignment workflow of the laundry management       *)
(* system: the admin order handlers (assignOrderToBranch,                  *)
(* assignOrderToLogistics, updateOrderStatus) and the branch handlers      *)
(* (updateOrderStatus, assignStaffToOrder), over the persisted Order and   *)
(* Staff documents.                                                        *)
(***************************************************************************)
EXTENDS Integers, Sequences, FiniteSets, TLC

\* null / undefined reference
None == "none"

----------------------------------------------------------------------------
\* Enumerations (config/constants.js)

USER_ROLES ==
  [ CUSTOMER       |-> "customer",
    ADMIN          |-> "admin",
    BRANCH_MANAGER |-> "branch_manager",
    SUPPORT_AGENT  |-> "support_agent",
    CENTER_ADMIN   |-> "center_admin",
    STAFF          |-> "staff" ]

ORDER_STATUS ==
  [ PLACED                         |-> "placed",
    ASSIGNED_TO_BRANCH             |-> "assigned_to_branch",
    ASSIGNED_TO_LOGISTICS_PICKUP   |-> "assigned_to_logistics_pickup",
    PICKED                         |-> "picked",
    IN_PROCESS                     |-> "in_process",
    READY                          |-> "ready",
    ASSIGNED_TO_LOGISTICS_DELIVERY |-> "assigned_to_logistics_delivery",
    OUT_FOR_DELIVERY               |-> "out_for_delivery",
    DELIVERED                      |-> "delivered",
    CANCELLED                      |-> "cancelled" ]

\* Object.values(ORDER_STATUS)
validStatuses == { ORDER_STATUS[k] : k \in DOMAIN ORDER_STATUS }

STAFF_ROLES == [ WASHER |-> "washer", IRONER |-> "ironer" ]

TICKET_STATUS ==
  [ OPEN        |-> "open",
    IN_PROGRESS |-> "in_progress",
    RESOLVED    |-> "resolved",
    CLOSED      |-> "closed",
    ESCALATED   |-> "escalated" ]

TICKET_PRIORITY ==
  [ LOW |-> "low", MEDIUM |-> "medium", HIGH |-> "high", CRITICAL |-> "critical" ]

----------------------------------------------------------------------------
\* Bounds

\* cap on the number of accepted admin status overrides in one behaviour
MaxOverrides == 1

\* cap on the number of failed storage writes in one behaviour
MaxFailures == 1

----------------------------------------------------------------------------
\* The documents the handlers read but never write in this workflow

Branches == {"b1", "b2"}

\* Branch.capacity.maxOrdersPerDay, as configured for each branch
maxOrdersPerDay == [b \in Branches |-> IF b = "b1" THEN 1 ELSE 2]

Partners == {"p1", "p2", "p3"}

\* LogisticsPartner.isActive
partnerActive == [p \in Partners |-> p # "p3"]

\* LogisticsPartner serviceable pincodes
partnerPincodes ==
  [p \in Partners |->
     CASE p = "p1" -> {"560001"}
       [] p = "p2" -> {"560002"}
       [] OTHER    -> {"560001", "560002"}]

\* LogisticsPartner.coversPincode
coversPincode(p, pincode) == pincode \in partnerPincodes[p]

\* The orders customers place; "o9" names no order
Orders == {"o1", "o2"}

\* Order.pickupAddress.pincode / Order.deliveryAddress.pincode
pickupPincode == [o \in Orders |-> IF o = "o1" THEN "560001" ELSE "560002"]
deliveryPincode == [o \in Orders |-> "560002"]

\* Staff documents; "s9" names no staff member
StaffMembers == {"s1", "s2", "s3", "s4"}

\* the concurrent-order limit of each staff member
\* the id given to the staff member that createStaff adds
NewStaffId == "s5"

staffLimit == [s \in StaffMembers \cup {NewStaffId} |-> IF s = "s2" THEN 2 ELSE 1]

\* req.user of the branch routes: an admin, or a branch manager with
\* their assignedBranch (a manager may have been created without one)
Callers ==
  { [role |-> USER_ROLES.ADMIN, assignedBranch |-> None] } \cup
  { [role |-> USER_ROLES.BRANCH_MANAGER, assignedBranch |-> b] :
      b \in Branches \cup {None} }

\* request inputs
BranchInputs  == Branches \cup {"b9", None}
PartnerInputs == Partners \cup {"p9", None}
TypeInputs    == {"pickup", "delivery", "return", None}
StatusInputs  == validStatuses \cup {"washed"}
StaffInputs   == StaffMembers \cup {"s9", None}

----------------------------------------------------------------------------
VARIABLES
  order,      \* persisted Order documents, by id
  staff,      \* persisted Staff documents, by id
  branch,     \* persisted Branch documents, by id
  overrides,  \* number of accepted admin overrides so far
  last,       \* the request just served: handler, order, response code
  call,       \* the assignStaffToOrder requests in flight, by request slot
  failures,   \* number of storage writes that have failed so far
  user,       \* persisted User documents, by id
  ticket      \* persisted Ticket documents, by id

vars == <<order, staff, branch, overrides, last, call, failures, user, ticket>>

\* request slots of the server
Procs == {"r1", "r2"}

\* An order as the customer placed it
NewOrder ==
  [ status           |-> ORDER_STATUS.PLACED,
    branch           |-> None,
    logisticsPartner |-> None,
    assignedStaff    |-> << >>,
    statusHistory    |-> << ORDER_STATUS.PLACED >> ]

InitStaff ==
  [s \in StaffMembers |->
     [ branch        |-> IF s = "s3" THEN "b2" ELSE "b1",
       isActive      |-> s # "s4",
       currentOrders |-> << >>,
       role          |-> IF s = "s2" THEN STAFF_ROLES.IRONER ELSE STAFF_ROLES.WASHER,
       phone         |-> s ]]

\* branch b1 is managed by user u1, branch b2 has no manager yet
InitBranch ==
  [b \in Branches |->
     [ isActive |-> TRUE,
       manager  |-> IF b = "b1" THEN "u1" ELSE None ]]

\* the accounts that exist at the start
InitUser ==
  [u \in {"u1", "u2", "c1", "c2", "a1", "a2", "ad"} |->
     [ role |-> CASE u \in {"u1", "u2"} -> USER_ROLES.BRANCH_MANAGER
                  [] u \in {"c1", "c2"} -> USER_ROLES.CUSTOMER
                  [] u \in {"a1", "a2"} -> USER_ROLES.SUPPORT_AGENT
                  [] OTHER -> USER_ROLES.ADMIN,
       assignedBranch |-> IF u = "u1" THEN "b1" ELSE None ]]

\* Ticket.create of createTicket: a ticket as customer c raised it
NewTicket(c) ==
  [ status      |-> TICKET_STATUS.OPEN,
    priority    |-> TICKET_PRIORITY.MEDIUM,
    raisedBy    |-> c,
    assignedTo  |-> None,
    escalatedTo |-> None,
    messages    |-> << >>,
    rating      |-> 0 ]   \* feedback.rating, 0 while there is none

\* one ticket of each customer
InitTicket == [t \in {"t1", "t2"} |-> NewTicket(IF t = "t1" THEN "c1" ELSE "c2")]

NoRequest == [op |-> None, order |-> None, res |-> None]

Idle == [pc |-> "idle", order |-> None, staffId |-> None,
         orderDoc |-> None, res |-> None]

\* a request that has ended with response code r
Done(r) == [Idle EXCEPT !.pc = "done", !.res = r]

InitWith(placed) ==
  /\ order = [o \in placed |-> NewOrder]
  /\ staff = InitStaff
  /\ branch = InitBranch
  /\ overrides = 0
  /\ last = NoRequest
  /\ call = [p \in Procs |-> Idle]
  /\ failures = 0
  /\ user = InitUser
  /\ ticket = InitTicket

----------------------------------------------------------------------------
\* Model methods

\* Order.updateStatus(status, updatedBy, notes): set the status, append the
\* history entry, save
updateStatus(doc, status) ==
  [doc EXCEPT !.status = status,
              !.statusHistory = Append(@, status)]

\* Branch.hasCapacity
hasCapacity(b) == TRUE

\* Staff.isAvailableForWork
isAvailableForWork(sdoc, s) ==
  sdoc.isActive /\ Len(sdoc.currentOrders) < staffLimit[s]

\* Staff.assignOrder(orderId)
assignOrder(sdoc, o) == [sdoc EXCEPT !.currentOrders = Append(@, o)]

SeqToSet(q) == { q[i] : i \in 1..Len(q) }

\* orders assigned to branch b (every order of the model is created in the
\* current operating day)
SameDayCount(b) == Cardinality({ o \in DOMAIN order : order[o].branch = b })

----------------------------------------------------------------------------
\* assignOrderToBranch (admin)

\* mutant: an order is assigned to a branch whatever its status
AssignOrderToBranchResult_AnyStatus(o, b) ==
  IF b = None THEN "BRANCH_REQUIRED"
  ELSE IF o \notin DOMAIN order THEN "ORDER_NOT_FOUND"
  ELSE IF b \notin Branches \/ ~branch[b].isActive THEN "BRANCH_NOT_FOUND"
  ELSE IF ~hasCapacity(b) THEN "BRANCH_FULL"
  ELSE "OK"

AssignOrderToBranchResult(o, b) ==
  IF b = None THEN "BRANCH_REQUIRED"
  ELSE IF o \notin DOMAIN order THEN "ORDER_NOT_FOUND"
  ELSE IF order[o].status # ORDER_STATUS.PLACED THEN "INVALID_STATUS"
  ELSE IF b \notin Branches \/ ~branch[b].isActive THEN "BRANCH_NOT_FOUND"
  ELSE IF ~hasCapacity(b) THEN "BRANCH_FULL"
  ELSE "OK"

\* mutant: the branch reference is not stored
AssignOrderToBranchWrite_NoBranch(o, b) ==
  updateStatus(order[o], ORDER_STATUS.ASSIGNED_TO_BRANCH)

AssignOrderToBranchWrite(o, b) ==
  updateStatus([order[o] EXCEPT !.branch = b], ORDER_STATUS.ASSIGNED_TO_BRANCH)

assignOrderToBranch(o, b) ==
  /\ last = NoRequest
  /\ LET r == AssignOrderToBranchResult(o, b) IN
     /\ order' = IF r = "OK"
                 THEN [order EXCEPT ![o] = AssignOrderToBranchWrite(o, b)]
                 ELSE order
     /\ last' = [op |-> "assignOrderToBranch", order |-> o, res |-> r]
     /\ UNCHANGED <<staff, branch, overrides, call, failures, user, ticket>>

----------------------------------------------------------------------------
\* assignOrderToLogistics (admin)

LegPincode(o, type) ==
  IF type = "pickup" THEN pickupPincode[o] ELSE deliveryPincode[o]

LegStatus(type) ==
  IF type = "pickup" THEN ORDER_STATUS.ASSIGNED_TO_LOGISTICS_PICKUP
  ELSE ORDER_STATUS.ASSIGNED_TO_LOGISTICS_DELIVERY

\* mutant: the delivery leg does not check the order's status
AssignOrderToLogisticsResult_NoDeliveryCheck(o, p, type) ==
  IF p = None \/ type = None THEN "MISSING_DATA"
  ELSE IF o \notin DOMAIN order THEN "ORDER_NOT_FOUND"
  ELSE IF p \notin Partners \/ ~partnerActive[p] THEN "LOGISTICS_NOT_FOUND"
  ELSE IF ~coversPincode(p, LegPincode(o, type)) THEN "AREA_NOT_COVERED"
  ELSE IF type = "pickup"
       THEN IF order[o].status # ORDER_STATUS.ASSIGNED_TO_BRANCH
            THEN "INVALID_STATUS" ELSE "OK"
       ELSE "OK"

\* mutant: the coverage check is skipped
AssignOrderToLogisticsResult_NoCoverageCheck(o, p, type) ==
  IF p = None \/ type = None THEN "MISSING_DATA"
  ELSE IF o \notin DOMAIN order THEN "ORDER_NOT_FOUND"
  ELSE IF p \notin Partners \/ ~partnerActive[p] THEN "LOGISTICS_NOT_FOUND"
  ELSE IF type = "pickup"
       THEN IF order[o].status # ORDER_STATUS.ASSIGNED_TO_BRANCH
            THEN "INVALID_STATUS" ELSE "OK"
       ELSE IF order[o].status # ORDER_STATUS.READY
            THEN "INVALID_STATUS" ELSE "OK"

AssignOrderToLogisticsResult(o, p, type) ==
  IF p = None \/ type = None THEN "MISSING_DATA"
  ELSE IF o \notin DOMAIN order THEN "ORDER_NOT_FOUND"
  ELSE IF p \notin Partners \/ ~partnerActive[p] THEN "LOGISTICS_NOT_FOUND"
  ELSE IF ~coversPincode(p, LegPincode(o, type)) THEN "AREA_NOT_COVERED"
  ELSE IF type = "pickup"
       THEN IF order[o].status # ORDER_STATUS.ASSIGNED_TO_BRANCH
            THEN "INVALID_STATUS" ELSE "OK"
       ELSE IF order[o].status # ORDER_STATUS.READY
            THEN "INVALID_STATUS" ELSE "OK"

\* mutant: the status is set without going through updateStatus
AssignOrderToLogisticsWrite_NoHistory(o, p, type) ==
  [order[o] EXCEPT !.logisticsPartner = p, !.status = LegStatus(type)]

AssignOrderToLogisticsWrite(o, p, type) ==
  updateStatus([order[o] EXCEPT !.logisticsPartner = p], LegStatus(type))

assignOrderToLogistics(o, p, type) ==
  /\ last = NoRequest
  /\ LET r == AssignOrderToLogisticsResult(o, p, type) IN
     /\ order' = IF r = "OK"
                 THEN [order EXCEPT ![o] = AssignOrderToLogisticsWrite(o, p, type)]
                 ELSE order
     /\ last' = [op |-> "assignOrderToLogistics", order |-> o, res |-> r]
     /\ UNCHANGED <<staff, branch, overrides, call, failures, user, ticket>>

----------------------------------------------------------------------------
\* updateOrderStatus (admin)

\* mutant: an order in a terminal status is not overridden
AdminUpdateOrderStatusResult_NoTerminal(o, status) ==
  IF o \notin DOMAIN order THEN "ORDER_NOT_FOUND"
  ELSE IF status \notin validStatuses THEN "INVALID_STATUS"
  ELSE IF order[o].status \in {ORDER_STATUS.DELIVERED, ORDER_STATUS.CANCELLED}
       THEN "INVALID_STATUS"
  ELSE "OK"

AdminUpdateOrderStatusResult(o, status) ==
  IF o \notin DOMAIN order THEN "ORDER_NOT_FOUND"
  ELSE IF status \notin validStatuses THEN "INVALID_STATUS"
  ELSE "OK"

AdminUpdateOrderStatusWrite(o, status) == updateStatus(order[o], status)

adminUpdateOrderStatus(o, status) ==
  /\ last = NoRequest
  /\ LET r == AdminUpdateOrderStatusResult(o, status) IN
     /\ r = "OK" => overrides < MaxOverrides
     /\ order' = IF r = "OK"
                 THEN [order EXCEPT ![o] = AdminUpdateOrderStatusWrite(o, status)]
                 ELSE order
     /\ overrides' = IF r = "OK" THEN overrides + 1 ELSE overrides
     /\ last' = [op |-> "adminUpdateOrderStatus", order |-> o, res |-> r]
     /\ UNCHANGED <<staff, branch, call, failures, user, ticket>>

----------------------------------------------------------------------------
\* updateOrderStatus (branch)

\* mutant: the PICKED row also lists the delivery assignment
allowedTransitions_Skip ==
  [ from \in { ORDER_STATUS.ASSIGNED_TO_LOGISTICS_PICKUP, ORDER_STATUS.PICKED,
               ORDER_STATUS.IN_PROCESS, ORDER_STATUS.READY,
               ORDER_STATUS.ASSIGNED_TO_LOGISTICS_DELIVERY,
               ORDER_STATUS.OUT_FOR_DELIVERY } |->
     CASE from = ORDER_STATUS.ASSIGNED_TO_LOGISTICS_PICKUP -> { ORDER_STATUS.PICKED }
       [] from = ORDER_STATUS.PICKED ->
            { ORDER_STATUS.IN_PROCESS, ORDER_STATUS.ASSIGNED_TO_LOGISTICS_DELIVERY }
       [] from = ORDER_STATUS.IN_PROCESS -> { ORDER_STATUS.READY }
       [] from = ORDER_STATUS.READY -> { ORDER_STATUS.ASSIGNED_TO_LOGISTICS_DELIVERY }
       [] from = ORDER_STATUS.ASSIGNED_TO_LOGISTICS_DELIVERY -> { ORDER_STATUS.OUT_FOR_DELIVERY }
       [] from = ORDER_STATUS.OUT_FOR_DELIVERY -> { ORDER_STATUS.DELIVERED } ]

allowedTransitions ==
  [ from \in { ORDER_STATUS.ASSIGNED_TO_LOGISTICS_PICKUP, ORDER_STATUS.PICKED,
               ORDER_STATUS.IN_PROCESS, ORDER_STATUS.READY,
               ORDER_STATUS.ASSIGNED_TO_LOGISTICS_DELIVERY,
               ORDER_STATUS.OUT_FOR_DELIVERY } |->
     CASE from = ORDER_STATUS.ASSIGNED_TO_LOGISTICS_PICKUP -> { ORDER_STATUS.PICKED }
       [] from = ORDER_STATUS.PICKED -> { ORDER_STATUS.IN_PROCESS }
       [] from = ORDER_STATUS.IN_PROCESS -> { ORDER_STATUS.READY }
       [] from = ORDER_STATUS.READY -> { ORDER_STATUS.ASSIGNED_TO_LOGISTICS_DELIVERY }
       [] from = ORDER_STATUS.ASSIGNED_TO_LOGISTICS_DELIVERY -> { ORDER_STATUS.OUT_FOR_DELIVERY }
       [] from = ORDER_STATUS.OUT_FOR_DELIVERY -> { ORDER_STATUS.DELIVERED } ]

\* allowedTransitions[order.status]?.includes(status)
TransitionAllowed(from, to) ==
  from \in DOMAIN allowedTransitions /\ to \in allowedTransitions[from]

\* the branch access check of both branch handlers: "FORBIDDEN", a thrown
\* TypeError (user.assignedBranch is undefined), or "PASS"
BranchAccess(c, odoc) ==
  IF c.role = USER_ROLES.BRANCH_MANAGER
  THEN IF odoc.branch = None THEN "FORBIDDEN"
       ELSE IF c.assignedBranch = None THEN "TYPE_ERROR"
       ELSE IF odoc.branch # c.assignedBranch THEN "FORBIDDEN"
       ELSE "PASS"
  ELSE "PASS"

\* mutant: any status of the enumeration is accepted, as in the admin handler
BranchUpdateOrderStatusResult_AnyStatus(c, o, status) ==
  IF o \notin DOMAIN order THEN "ORDER_NOT_FOUND"
  ELSE IF BranchAccess(c, order[o]) # "PASS" THEN BranchAccess(c, order[o])
  ELSE IF status \notin validStatuses THEN "INVALID_TRANSITION"
  ELSE "OK"

BranchUpdateOrderStatusResult(c, o, status) ==
  IF o \notin DOMAIN order THEN "ORDER_NOT_FOUND"
  ELSE IF BranchAccess(c, order[o]) # "PASS" THEN BranchAccess(c, order[o])
  ELSE IF ~TransitionAllowed(order[o].status, status) THEN "INVALID_TRANSITION"
  ELSE "OK"

BranchUpdateOrderStatusWrite(o, status) == updateStatus(order[o], status)

branchUpdateOrderStatus(c, o, status) ==
  /\ last = NoRequest
  /\ LET r == BranchUpdateOrderStatusResult(c, o, status) IN
     /\ order' = IF r = "OK"
                 THEN [order EXCEPT ![o] = BranchUpdateOrderStatusWrite(o, status)]
                 ELSE order
     /\ last' = [op |-> "branchUpdateOrderStatus", order |-> o, res |-> r]
     /\ UNCHANGED <<staff, branch, overrides, call, failures, user, ticket>>

----------------------------------------------------------------------------
\* assignStaffToOrder (branch), one request run to completion

\* the checks up to the first await after Order.findById
OrderCheckResult(c, o, s) ==
  IF s = None THEN "STAFF_REQUIRED"
  ELSE IF o \notin DOMAIN order THEN "ORDER_NOT_FOUND"
  ELSE IF BranchAccess(c, order[o]) # "PASS" THEN BranchAccess(c, order[o])
  ELSE "PASS"

\* mutant: no check for an existing assignment
StaffCheckResult_NoDuplicateCheck(odoc, s) ==
  IF s \notin DOMAIN staff \/ ~staff[s].isActive THEN "STAFF_NOT_FOUND"
  ELSE IF odoc.branch = None THEN "TYPE_ERROR"
  ELSE IF staff[s].branch # odoc.branch THEN "STAFF_BRANCH_MISMATCH"
  ELSE IF ~isAvailableForWork(staff[s], s) THEN "STAFF_UNAVAILABLE"
  ELSE "OK"

\* mutant: no availability check
StaffCheckResult_NoAvailabilityCheck(odoc, s) ==
  IF s \notin DOMAIN staff \/ ~staff[s].isActive THEN "STAFF_NOT_FOUND"
  ELSE IF odoc.branch = None THEN "TYPE_ERROR"
  ELSE IF staff[s].branch # odoc.branch THEN "STAFF_BRANCH_MISMATCH"
  ELSE IF s \in SeqToSet(odoc.assignedStaff) THEN "ALREADY_ASSIGNED"
  ELSE "OK"

\* the checks after Staff.findById, on the order document read before
StaffCheckResult(odoc, s) ==
  IF s \notin DOMAIN staff \/ ~staff[s].isActive THEN "STAFF_NOT_FOUND"
  ELSE IF odoc.branch = None THEN "TYPE_ERROR"
  ELSE IF staff[s].branch # odoc.branch THEN "STAFF_BRANCH_MISMATCH"
  ELSE IF ~isAvailableForWork(staff[s], s) THEN "STAFF_UNAVAILABLE"
  ELSE IF s \in SeqToSet(odoc.assignedStaff) THEN "ALREADY_ASSIGNED"
  ELSE "OK"

AssignStaffToOrderResult(c, o, s) ==
  IF OrderCheckResult(c, o, s) # "PASS" THEN OrderCheckResult(c, o, s)
  ELSE StaffCheckResult(order[o], s)

\* mutant: the staff assignment is also logged in the status history
AssignStaffToOrderOrderWrite_Logged(o, s) ==
  [order[o] EXCEPT !.assignedStaff = Append(@, s),
                   !.statusHistory = Append(@, order[o].status)]

AssignStaffToOrderOrderWrite(o, s) ==
  [order[o] EXCEPT !.assignedStaff = Append(@, s)]

\* mutant: the staff write also clears the isActive flag
AssignStaffToOrderStaffWrite_Deactivates(o, s) ==
  [assignOrder(staff[s], o) EXCEPT !.isActive = FALSE]

AssignStaffToOrderStaffWrite(o, s) == assignOrder(staff[s], o)

assignStaffToOrder(c, o, s) ==
  /\ last = NoRequest
  /\ LET r == AssignStaffToOrderResult(c, o, s) IN
     /\ order' = IF r = "OK"
                 THEN [order EXCEPT ![o] = AssignStaffToOrderOrderWrite(o, s)]
                 ELSE order
     /\ staff' = IF r = "OK"
                 THEN [staff EXCEPT ![s] = AssignStaffToOrderStaffWrite(o, s)]
                 ELSE staff
     /\ last' = [op |-> "assignStaffToOrder", order |-> o, res |-> r]
     /\ UNCHANGED <<branch, overrides, call, failures, user, ticket>>

----------------------------------------------------------------------------
\* Requests served one after the other

\* the order ids requests name: the orders that exist, and one that does not
OrderInputs == DOMAIN order \cup {"o9"}

\* the response has been sent; the next request is taken up
Respond ==
  /\ last # NoRequest
  /\ last' = NoRequest
  /\ UNCHANGED <<order, staff, branch, overrides, call, failures, user, ticket>>

DoAssignOrderToBranch ==
  \E o \in OrderInputs, b \in BranchInputs : assignOrderToBranch(o, b)

DoAssignOrderToLogistics ==
  \E o \in OrderInputs, p \in PartnerInputs, type \in TypeInputs :
    assignOrderToLogistics(o, p, type)

DoAdminUpdateOrderStatus ==
  \E o \in OrderInputs, status \in StatusInputs : adminUpdateOrderStatus(o, status)

DoBranchUpdateOrderStatus ==
  \E c \in Callers, o \in OrderInputs, status \in StatusInputs :
    branchUpdateOrderStatus(c, o, status)

DoAssignStaffToOrder ==
  \E c \in Callers, o \in OrderInputs, s \in StaffInputs : assignStaffToOrder(c, o, s)

\* one order, all five handlers
Init == InitWith({"o1"})

Next ==
  \/ DoAssignOrderToBranch
  \/ DoAssignOrderToLogistics
  \/ DoAdminUpdateOrderStatus
  \/ DoBranchUpdateOrderStatus
  \/ DoAssignStaffToOrder
  \/ Respond

Spec == Init /\ [][Next]_vars

\* two orders, the handlers that follow the workflow (no admin override)
InitTwo == InitWith(Orders)

NextTwo ==
  \/ DoAssignOrderToBranch
  \/ DoAssignOrderToLogistics
  \/ DoBranchUpdateOrderStatus
  \/ DoAssignStaffToOrder
  \/ Respond

SpecTwo == InitTwo /\ [][NextTwo]_vars

----------------------------------------------------------------------------
\* Requests served one after the other, a storage write of which may reject:
\* the rejection is thrown out of the handler, asyncHandler turns it into an
\* error response, and the writes awaited before it stay

\* the response code of a request that ended in a thrown error
ServerError == "SERVER_ERROR"

\* the storage writes of assignStaffToOrder, in program order
StaffWriteSteps == {"saveOrder", "assignOrder"}

\* the request passed its checks and its write `await order.updateStatus`
\* rejected: nothing was stored
updateStatusFails(op, o, r) ==
  /\ last = NoRequest
  /\ r = "OK"
  /\ failures < MaxFailures
  /\ failures' = failures + 1
  /\ last' = [op |-> op, order |-> o, res |-> ServerError]
  /\ UNCHANGED <<order, staff, branch, overrides, call, user, ticket>>

assignOrderToBranchFails(o, b) ==
  updateStatusFails("assignOrderToBranch", o, AssignOrderToBranchResult(o, b))

assignOrderToLogisticsFails(o, p, type) ==
  updateStatusFails("assignOrderToLogistics", o,
                    AssignOrderToLogisticsResult(o, p, type))

adminUpdateOrderStatusFails(o, status) ==
  updateStatusFails("adminUpdateOrderStatus", o,
                    AdminUpdateOrderStatusResult(o, status))

branchUpdateOrderStatusFails(c, o, status) ==
  updateStatusFails("branchUpdateOrderStatus", o,
                    BranchUpdateOrderStatusResult(c, o, status))

\* assignStaffToOrder passed its checks and the write `step` rejected:
\* `await order.save()` stores nothing; `await staff.assignOrder(orderId)`
\* rejects after order.save() has stored the pushed entry
assignStaffToOrderFails(c, o, s, step) ==
  /\ last = NoRequest
  /\ AssignStaffToOrderResult(c, o, s) = "OK"
  /\ failures < MaxFailures
  /\ failures' = failures + 1
  /\ order' = IF step = "assignOrder"
              THEN [order EXCEPT ![o] = AssignStaffToOrderOrderWrite(o, s)]
              ELSE order
  /\ last' = [op |-> "assignStaffToOrder", order |-> o, res |-> ServerError]
  /\ UNCHANGED <<staff, branch, overrides, call, user, ticket>>

DoAssignOrderToBranchFails ==
  \E o \in OrderInputs, b \in BranchInputs : assignOrderToBranchFails(o, b)

DoAssignOrderToLogisticsFails ==
  \E o \in OrderInputs, p \in PartnerInputs, type \in TypeInputs :
    assignOrderToLogisticsFails(o, p, type)

DoAdminUpdateOrderStatusFails ==
  \E o \in OrderInputs, status \in StatusInputs :
    adminUpdateOrderStatusFails(o, status)

DoBranchUpdateOrderStatusFails ==
  \E c \in Callers, o \in OrderInputs, status \in StatusInputs :
    branchUpdateOrderStatusFails(c, o, status)

DoAssignStaffToOrderFails ==
  \E c \in Callers, o \in OrderInputs, s \in StaffInputs, step \in StaffWriteSteps :
    assignStaffToOrderFails(c, o, s, step)

\* one order, all five handlers, each with its failing writes
NextFail ==
  \/ DoAssignOrderToBranch
  \/ DoAssignOrderToLogistics
  \/ DoAdminUpdateOrderStatus
  \/ DoBranchUpdateOrderStatus
  \/ DoAssignStaffToOrder
  \/ DoAssignOrderToBranchFails
  \/ DoAssignOrderToLogisticsFails
  \/ DoAdminUpdateOrderStatusFails
  \/ DoBranchUpdateOrderStatusFails
  \/ DoAssignStaffToOrderFails
  \/ Respond

SpecFail == Init /\ [][NextFail]_vars

----------------------------------------------------------------------------
\* assignStaffToOrder, await by await: requests in flight interleave at
\* every storage call

\* await Order.findById, and the checks that follow it
StartAssignStaff(p, c, o, s) ==
  /\ call[p].pc = "idle"
  /\ LET r == OrderCheckResult(c, o, s) IN
     call' = [call EXCEPT ![p] =
                IF r = "PASS"
                THEN [pc |-> "findStaff", order |-> o, staffId |-> s,
                      orderDoc |-> order[o], res |-> None]
                ELSE Done(r)]
  /\ UNCHANGED <<order, staff, branch, overrides, last, failures, user, ticket>>

\* await Staff.findById, the checks that follow it, and the push onto the
\* order document in memory
FindStaff(p) ==
  /\ call[p].pc = "findStaff"
  /\ LET r == StaffCheckResult(call[p].orderDoc, call[p].staffId) IN
     call' = [call EXCEPT ![p] =
                IF r = "OK"
                THEN [@ EXCEPT !.pc = "saveOrder"]
                ELSE Done(r)]
  /\ UNCHANGED <<order, staff, branch, overrides, last, failures, user, ticket>>

\* await order.save(): the pushed entry is appended to the stored array
SaveOrder(p) ==
  /\ call[p].pc = "saveOrder"
  /\ order' = [order EXCEPT ![call[p].order] =
                 AssignStaffToOrderOrderWrite(call[p].order, call[p].staffId)]
  /\ call' = [call EXCEPT ![p].pc = "assignOrder"]
  /\ UNCHANGED <<staff, branch, overrides, last, failures, user, ticket>>

\* await staff.assignOrder(orderId)
StaffAssignOrder(p) ==
  /\ call[p].pc = "assignOrder"
  /\ staff' = [staff EXCEPT ![call[p].staffId] =
                 AssignStaffToOrderStaffWrite(call[p].order, call[p].staffId)]
  /\ call' = [call EXCEPT ![p].pc = "reload"]
  /\ UNCHANGED <<order, branch, overrides, last, failures, user, ticket>>

\* await Order.findById(...).populate(...), then sendSuccess
Reload(p) ==
  /\ call[p].pc = "reload"
  /\ call' = [call EXCEPT ![p] = Done("OK")]
  /\ UNCHANGED <<order, staff, branch, overrides, last, failures, user, ticket>>

\* a storage write rejects (or the request is abandoned): the handler ends
\* there with an error
StorageFails(p) ==
  /\ call[p].pc \in {"saveOrder", "assignOrder"}
  /\ failures < MaxFailures
  /\ failures' = failures + 1
  /\ call' = [call EXCEPT ![p] = Done("SERVER_ERROR")]
  /\ UNCHANGED <<order, staff, branch, overrides, last, user, ticket>>

\* the response is out; the slot takes the next request
Return(p) ==
  /\ call[p].pc = "done"
  /\ call' = [call EXCEPT ![p] = Idle]
  /\ UNCHANGED <<order, staff, branch, overrides, last, failures, user, ticket>>

\* An order the admin has assigned to branch b
OrderAt(b) ==
  updateStatus([NewOrder EXCEPT !.branch = b], ORDER_STATUS.ASSIGNED_TO_BRANCH)

\* both orders already assigned to branch b1, no request in flight
InitConc ==
  /\ order = [o \in Orders |-> OrderAt("b1")]
  /\ staff = InitStaff
  /\ branch = InitBranch
  /\ overrides = 0
  /\ last = NoRequest
  /\ call = [p \in Procs |-> Idle]
  /\ failures = 0
  /\ user = InitUser
  /\ ticket = InitTicket

\* the staff ids the interleaved requests name: all of them contend for s1
ConcStaffInputs == StaffInputs \ {"s2"}

NextConc ==
  \/ \E p \in Procs, c \in Callers, o \in OrderInputs, s \in ConcStaffInputs :
       StartAssignStaff(p, c, o, s)
  \/ \E p \in Procs : FindStaff(p)
  \/ \E p \in Procs : SaveOrder(p)
  \/ \E p \in Procs : StaffAssignOrder(p)
  \/ \E p \in Procs : Reload(p)
  \/ \E p \in Procs : StorageFails(p)
  \/ \E p \in Procs : Return(p)

SpecConc == InitConc /\ [][NextConc]_vars

----------------------------------------------------------------------------
\* assignOrderToBranch and assignOrderToLogistics, await by await

\* assignOrderToBranch: await Order.findById and the checks before the next
\* await
StartAssignBranch(p, o, b) ==
  /\ call[p].pc = "idle"
  /\ LET r == IF b = None THEN "BRANCH_REQUIRED"
              ELSE IF o \notin DOMAIN order THEN "ORDER_NOT_FOUND"
              ELSE IF order[o].status # ORDER_STATUS.PLACED THEN "INVALID_STATUS"
              ELSE "PASS" IN
     call' = [call EXCEPT ![p] =
                IF r = "PASS"
                THEN [pc |-> "findBranch", order |-> o, target |-> b, res |-> None]
                ELSE Done(r)]
  /\ UNCHANGED <<order, staff, branch, overrides, last, failures, user, ticket>>

\* await Branch.findById, the activity and capacity checks, and the
\* assignment of order.branch on the document in memory
FindBranch(p) ==
  /\ call[p].pc = "findBranch"
  /\ LET b == call[p].target
         r == IF b \notin Branches \/ ~branch[b].isActive THEN "BRANCH_NOT_FOUND"
              ELSE IF ~hasCapacity(b) THEN "BRANCH_FULL"
              ELSE "OK" IN
     call' = [call EXCEPT ![p] =
                IF r = "OK" THEN [@ EXCEPT !.pc = "writeBranch"] ELSE Done(r)]
  /\ UNCHANGED <<order, staff, branch, overrides, last, failures, user, ticket>>

\* await order.updateStatus(ASSIGNED_TO_BRANCH, ...): the save stores the
\* paths this request modified (branch, status, the pushed history entry)
WriteBranch(p) ==
  /\ call[p].pc = "writeBranch"
  /\ order' = [order EXCEPT ![call[p].order] =
                 AssignOrderToBranchWrite(call[p].order, call[p].target)]
  /\ call' = [call EXCEPT ![p].pc = "reload"]
  /\ UNCHANGED <<staff, branch, overrides, last, failures, user, ticket>>

\* assignOrderToLogistics: await Order.findById
StartAssignLogistics(p, o, pt, type) ==
  /\ call[p].pc = "idle"
  /\ LET r == IF pt = None \/ type = None THEN "MISSING_DATA"
              ELSE IF o \notin DOMAIN order THEN "ORDER_NOT_FOUND"
              ELSE "PASS" IN
     call' = [call EXCEPT ![p] =
                IF r = "PASS"
                THEN [pc |-> "findPartner", order |-> o, target |-> pt,
                      type |-> type, orderDoc |-> order[o], res |-> None]
                ELSE Done(r)]
  /\ UNCHANGED <<order, staff, branch, overrides, last, failures, user, ticket>>

\* await LogisticsPartner.findById, then the partner, coverage and status
\* checks, the status being that of the order document read before
FindPartner(p) ==
  /\ call[p].pc = "findPartner"
  /\ LET pt   == call[p].target
         type == call[p].type
         r == IF pt \notin Partners \/ ~partnerActive[pt] THEN "LOGISTICS_NOT_FOUND"
              ELSE IF ~coversPincode(pt, LegPincode(call[p].order, type))
                   THEN "AREA_NOT_COVERED"
              ELSE IF call[p].orderDoc.status #
                        (IF type = "pickup" THEN ORDER_STATUS.ASSIGNED_TO_BRANCH
                         ELSE ORDER_STATUS.READY)
                   THEN "INVALID_STATUS"
              ELSE "OK" IN
     call' = [call EXCEPT ![p] =
                IF r = "OK" THEN [@ EXCEPT !.pc = "writeLogistics"] ELSE Done(r)]
  /\ UNCHANGED <<order, staff, branch, overrides, last, failures, user, ticket>>

\* await order.updateStatus(newStatus, ...)
WriteLogistics(p) ==
  /\ call[p].pc = "writeLogistics"
  /\ order' = [order EXCEPT ![call[p].order] =
                 AssignOrderToLogisticsWrite(call[p].order, call[p].target,
                                             call[p].type)]
  /\ call' = [call EXCEPT ![p].pc = "reload"]
  /\ UNCHANGED <<staff, branch, overrides, last, failures, user, ticket>>

\* one placed order, two request slots, the two admin assignments
NextAssignConc ==
  \/ \E p \in Procs, o \in OrderInputs, b \in BranchInputs :
       StartAssignBranch(p, o, b)
  \/ \E p \in Procs : FindBranch(p)
  \/ \E p \in Procs : WriteBranch(p)
  \/ \E p \in Procs, o \in OrderInputs, pt \in PartnerInputs, type \in TypeInputs :
       StartAssignLogistics(p, o, pt, type)
  \/ \E p \in Procs : FindPartner(p)
  \/ \E p \in Procs : WriteLogistics(p)
  \/ \E p \in Procs : Reload(p)
  \/ \E p \in Procs : Return(p)

SpecAssignConc == Init /\ [][NextAssignConc]_vars

----------------------------------------------------------------------------
\* Branch and staff documents changed while an assignment is in flight

\* toggleBranchStatus (center admin): flip isActive and save; a missing
\* branch is answered BRANCH_NOT_FOUND
toggleBranchStatus(b) ==
  /\ branch' = IF b \in Branches
               THEN [branch EXCEPT ![b].isActive = ~@]
               ELSE branch
  /\ UNCHANGED <<order, staff, overrides, last, call, failures, user, ticket>>

\* request bodies of updateStaff
UpdateInputs ==
  { [isActive |-> FALSE], [isActive |-> TRUE],
    [branch |-> "b2"], [currentOrders |-> << >>] }

UpdateStaffResult(c, s) ==
  IF s \notin DOMAIN staff THEN "STAFF_NOT_FOUND"
  ELSE IF c.role = USER_ROLES.BRANCH_MANAGER
       THEN IF c.assignedBranch = None THEN "TYPE_ERROR"
            ELSE IF staff[s].branch # c.assignedBranch THEN "FORBIDDEN"
            ELSE "OK"
  ELSE "OK"

\* every key of the request body is copied onto the staff document
UpdateStaffWrite(s, updateData) ==
  [k \in DOMAIN staff[s] |->
     IF k \in DOMAIN updateData THEN updateData[k] ELSE staff[s][k]]

\* updateStaff (branch manager or admin)
updateStaff(c, s, updateData) ==
  /\ staff' = IF UpdateStaffResult(c, s) = "OK"
              THEN [staff EXCEPT ![s] = UpdateStaffWrite(s, updateData)]
              ELSE staff
  /\ UNCHANGED <<order, branch, overrides, last, call, failures, user, ticket>>

\* order o1 placed, order o2 already assigned to branch b1
InitStale ==
  /\ order = [o \in Orders |-> IF o = "o1" THEN NewOrder ELSE OrderAt("b1")]
  /\ staff = InitStaff
  /\ branch = InitBranch
  /\ overrides = 0
  /\ last = NoRequest
  /\ call = [p \in Procs |-> Idle]
  /\ failures = 0
  /\ user = InitUser
  /\ ticket = InitTicket

\* the staff ids the requests of this specification name
StaleStaffInputs == {"s1", "s9"}

\* an assignOrderToBranch or assignStaffToOrder request in one slot, with
\* toggleBranchStatus and updateStaff requests served while it is in flight
NextStale ==
  \/ \E o \in OrderInputs, b \in BranchInputs : StartAssignBranch("r1", o, b)
  \/ FindBranch("r1")
  \/ WriteBranch("r1")
  \/ \E c \in Callers, o \in OrderInputs, s \in StaleStaffInputs :
       StartAssignStaff("r1", c, o, s)
  \/ FindStaff("r1")
  \/ SaveOrder("r1")
  \/ StaffAssignOrder("r1")
  \/ Reload("r1")
  \/ Return("r1")
  \/ \E b \in BranchInputs \ {None} : toggleBranchStatus(b)
  \/ \E c \in Callers, s \in StaleStaffInputs, u \in UpdateInputs :
       updateStaff(c, s, u)

SpecStale == InitStale /\ [][NextStale]_vars

----------------------------------------------------------------------------
\* Branch dashboard, listings and staff creation (branch manager or admin)

\* mutant: a branchId named by the request wins over the caller's branch
BranchScope_FromRequest(c, requested) ==
  IF requested # None THEN requested ELSE c.assignedBranch

\* the branch a branch request works on: the caller's assignedBranch for a
\* branch manager, the branchId of the request for an admin
BranchScope(c, requested) ==
  IF c.role = USER_ROLES.BRANCH_MANAGER THEN c.assignedBranch ELSE requested

\* query strings of the branch routes and bodies of createStaff
QueryInputs ==
  [ branchId : {"b2", None},
    role     : {STAFF_ROLES.WASHER, STAFF_ROLES.IRONER, None} ]

BodyInputs ==
  [ branchId : {"b2", None},
    role     : {STAFF_ROLES.WASHER, STAFF_ROLES.IRONER},
    phone    : {"s1", NewStaffId} ]

\* getBranchDashboard: the order and staff counts of the branch
GetBranchDashboardResponse(c, q) ==
  LET b == BranchScope(c, q.branchId) IN
  IF b = None
  THEN IF c.role = USER_ROLES.BRANCH_MANAGER
       THEN "NO_BRANCH_ASSIGNED" ELSE "BRANCH_REQUIRED"
  ELSE [ totalOrders |-> Cardinality({ o \in DOMAIN order : order[o].branch = b }),
         totalStaff  |-> Cardinality({ s \in DOMAIN staff : staff[s].branch = b }),
         activeStaff |-> Cardinality({ s \in DOMAIN staff :
                                         staff[s].branch = b /\ staff[s].isActive }) ]

\* getBranchOrders: the orders of the branch
GetBranchOrdersResponse(c, q) ==
  LET b == BranchScope(c, q.branchId) IN
  IF b = None THEN "BRANCH_REQUIRED"
  ELSE { o \in DOMAIN order : order[o].branch = b }

\* getStaff: the staff of the branch, filtered by role when the query names one
GetStaffResponse(c, q) ==
  LET b == BranchScope(c, q.branchId) IN
  IF b = None THEN "BRANCH_REQUIRED"
  ELSE { s \in DOMAIN staff :
           staff[s].branch = b /\ (q.role # None => staff[s].role = q.role) }

CreateStaffResult(c, body) ==
  IF BranchScope(c, body.branchId) = None THEN "BRANCH_REQUIRED"
  ELSE IF \E s \in DOMAIN staff : staff[s].phone = body.phone THEN "PHONE_EXISTS"
  ELSE "OK"

\* Staff.create({ name, phone, role, branch: branchId })
CreateStaffWrite(c, body) ==
  [ branch        |-> BranchScope(c, body.branchId),
    isActive      |-> TRUE,
    currentOrders |-> << >>,
    role          |-> body.role,
    phone         |-> body.phone ]

\* a listing just served, with its response
Served(op, res) == [op |-> op, order |-> None, res |-> res]

getBranchDashboard(c, q) ==
  /\ last = NoRequest
  /\ last' = Served("getBranchDashboard", GetBranchDashboardResponse(c, q))
  /\ UNCHANGED <<order, staff, branch, overrides, call, failures, user, ticket>>

getBranchOrders(c, q) ==
  /\ last = NoRequest
  /\ last' = Served("getBranchOrders", GetBranchOrdersResponse(c, q))
  /\ UNCHANGED <<order, staff, branch, overrides, call, failures, user, ticket>>

getStaff(c, q) ==
  /\ last = NoRequest
  /\ last' = Served("getStaff", GetStaffResponse(c, q))
  /\ UNCHANGED <<order, staff, branch, overrides, call, failures, user, ticket>>

createStaff(c, body) ==
  /\ last = NoRequest
  /\ LET r == CreateStaffResult(c, body) IN
     /\ staff' = IF r = "OK"
                 THEN [s \in DOMAIN staff \cup {NewStaffId} |->
                         IF s = NewStaffId THEN CreateStaffWrite(c, body)
                         ELSE staff[s]]
                 ELSE staff
     /\ last' = [op |-> "createStaff", order |-> None, res |-> r,
                 by |-> c, req |-> body]
  /\ UNCHANGED <<order, branch, overrides, call, failures, user, ticket>>

\* order o1 at branch b1, order o2 at branch b2
InitBranchRoutes ==
  /\ order = [o \in Orders |-> OrderAt(IF o = "o1" THEN "b1" ELSE "b2")]
  /\ staff = InitStaff
  /\ branch = InitBranch
  /\ overrides = 0
  /\ last = NoRequest
  /\ call = [p \in Procs |-> Idle]
  /\ failures = 0
  /\ user = InitUser
  /\ ticket = InitTicket

\* the staff ids the requests of this specification name
BranchRoutesStaffInputs == {"s1", NewStaffId, "s9"}

\* the staff routes, the listings and assignStaffToOrder
NextBranchRoutes ==
  \/ \E c \in Callers, q \in QueryInputs : getBranchDashboard(c, q)
  \/ \E c \in Callers, q \in QueryInputs : getBranchOrders(c, q)
  \/ \E c \in Callers, q \in QueryInputs : getStaff(c, q)
  \/ \E c \in Callers, body \in BodyInputs : createStaff(c, body)
  \/ \E c \in Callers, s \in BranchRoutesStaffInputs, u \in UpdateInputs :
       last = NoRequest /\ updateStaff(c, s, u)
  \/ \E c \in Callers, o \in OrderInputs, s \in BranchRoutesStaffInputs :
       assignStaffToOrder(c, o, s)
  \/ Respond

SpecBranchRoutes == InitBranchRoutes /\ [][NextBranchRoutes]_vars

----------------------------------------------------------------------------
\* Tickets: the support routes (support agent or admin) and the customer routes

\* messages a ticket can hold in the model
MaxMessages == 2

\* req.user of the support routes and of the customer routes
SupportCallers  == { u \in DOMAIN InitUser :
                       InitUser[u].role \in {USER_ROLES.SUPPORT_AGENT, USER_ROLES.ADMIN} }
CustomerCallers == { u \in DOMAIN InitUser : InitUser[u].role = USER_ROLES.CUSTOMER }

\* request inputs
TicketInputs         == {"t1", "t9"}
TicketStatusInputs   == { TICKET_STATUS[k] : k \in DOMAIN TICKET_STATUS } \cup {None}
TicketPriorityInputs == {TICKET_PRIORITY.HIGH, None}

\* Ticket.addMessage(sender, message, isInternal)
addMessage(tdoc, sender, isInternal) ==
  [tdoc EXCEPT !.messages = Append(@, [sender |-> sender, isInternal |-> isInternal])]

\* Ticket.escalate(escalatedTo, reason)
escalate(tdoc, escalatedTo) ==
  [tdoc EXCEPT !.status = TICKET_STATUS.ESCALATED, !.escalatedTo = escalatedTo]

\* Ticket.resolve(resolvedBy, resolution)
resolve(tdoc) == [tdoc EXCEPT !.status = TICKET_STATUS.RESOLVED]

\* the access check of the support handlers that have one: a support agent
\* is refused a ticket assigned to somebody else
AgentRefused(u, tdoc) ==
  /\ user[u].role = USER_ROLES.SUPPORT_AGENT
  /\ tdoc.assignedTo # None
  /\ tdoc.assignedTo # u

\* the ticket request just served
ServedTicket(op, u, t, res) ==
  [op |-> op, order |-> None, res |-> res, by |-> u, ticket |-> t]

\* a ticket request that writes ticket t as doc when its result is "OK"
TicketRequest(op, u, t, r, doc) ==
  /\ last = NoRequest
  /\ ticket' = IF r = "OK" THEN [ticket EXCEPT ![t] = doc] ELSE ticket
  /\ last' = ServedTicket(op, u, t, r)
  /\ UNCHANGED <<order, staff, branch, overrides, call, failures, user>>

UpdateTicketStatusResult(u, t) ==
  IF t \notin DOMAIN ticket THEN "TICKET_NOT_FOUND"
  ELSE IF AgentRefused(u, ticket[t]) THEN "FORBIDDEN"
  ELSE "OK"

UpdateTicketStatusWrite(u, t, status, priority) ==
  [ticket[t] EXCEPT
     !.status     = IF status # None THEN status ELSE @,
     !.priority   = IF priority # None THEN priority ELSE @,
     !.assignedTo = IF status = TICKET_STATUS.IN_PROGRESS /\ @ = None THEN u ELSE @]

updateTicketStatus(u, t, status, priority) ==
  TicketRequest("updateTicketStatus", u, t, UpdateTicketStatusResult(u, t),
                UpdateTicketStatusWrite(u, t, status, priority))

AssignTicketResult(t, assignedTo) ==
  IF assignedTo = None THEN "ASSIGNEE_REQUIRED"
  ELSE IF t \notin DOMAIN ticket THEN "TICKET_NOT_FOUND"
  ELSE IF \/ assignedTo \notin DOMAIN user
          \/ user[assignedTo].role \notin {USER_ROLES.SUPPORT_AGENT, USER_ROLES.ADMIN}
       THEN "INVALID_ASSIGNEE"
  ELSE "OK"

AssignTicketWrite(t, assignedTo) ==
  [ticket[t] EXCEPT
     !.assignedTo = assignedTo,
     !.status = IF @ = TICKET_STATUS.OPEN THEN TICKET_STATUS.IN_PROGRESS ELSE @]

assignTicket(u, t, assignedTo) ==
  TicketRequest("assignTicket", u, t, AssignTicketResult(t, assignedTo),
                AssignTicketWrite(t, assignedTo))

SupportAddMessageResult(u, t) ==
  IF t \notin DOMAIN ticket THEN "TICKET_NOT_FOUND"
  ELSE IF AgentRefused(u, ticket[t]) THEN "FORBIDDEN"
  ELSE "OK"

\* addMessageToTicket of the support routes
supportAddMessageToTicket(u, t, isInternal) ==
  /\ t \in DOMAIN ticket => Len(ticket[t].messages) < MaxMessages
  /\ TicketRequest("supportAddMessageToTicket", u, t, SupportAddMessageResult(u, t),
                   addMessage(ticket[t], u, isInternal))

EscalateTicketResult(t, escalatedTo) ==
  IF escalatedTo = None THEN "MISSING_DATA"
  ELSE IF t \notin DOMAIN ticket THEN "TICKET_NOT_FOUND"
  ELSE IF \/ escalatedTo \notin DOMAIN user
          \/ user[escalatedTo].role \notin {USER_ROLES.ADMIN, USER_ROLES.CENTER_ADMIN}
       THEN "INVALID_ESCALATION_TARGET"
  ELSE "OK"

escalateTicket(u, t, escalatedTo) ==
  TicketRequest("escalateTicket", u, t, EscalateTicketResult(t, escalatedTo),
                escalate(ticket[t], escalatedTo))

\* the request always carries a resolution text
ResolveTicketResult(u, t) ==
  IF t \notin DOMAIN ticket THEN "TICKET_NOT_FOUND"
  ELSE IF AgentRefused(u, ticket[t]) THEN "FORBIDDEN"
  ELSE "OK"

resolveTicket(u, t) ==
  TicketRequest("resolveTicket", u, t, ResolveTicketResult(u, t), resolve(ticket[t]))

\* Ticket.findOne({ _id: ticketId, raisedBy: req.user._id }) on the ticket
\* collection tk
OwnTicketIn(tk, c, t) == t \in DOMAIN tk /\ tk[t].raisedBy = c

OwnTicket(c, t) == OwnTicketIn(ticket, c, t)

\* the response of a customer route: an error code, or "OK" with a body
Answer(code, body) == [code |-> code, body |-> body]

\* mutant: the messages of a response are not filtered
FilterInternal_Nothing(messages) == messages

\* messages.filter(msg => !msg.isInternal)
FilterInternal(messages) == SelectSeq(messages, LAMBDA m : ~m.isInternal)

CustomerAddMessageResultIn(tk, c, t) ==
  IF ~OwnTicketIn(tk, c, t) THEN "TICKET_NOT_FOUND"
  ELSE IF tk[t].status = TICKET_STATUS.CLOSED THEN "TICKET_CLOSED"
  ELSE "OK"

CustomerAddMessageResult(c, t) == CustomerAddMessageResultIn(ticket, c, t)

CustomerAddMessageWriteIn(tk, c, t) ==
  [addMessage(tk[t], c, FALSE) EXCEPT
     !.status = IF @ = TICKET_STATUS.RESOLVED THEN TICKET_STATUS.IN_PROGRESS ELSE @]

\* mutant: a resolved ticket stays resolved when its customer writes again
CustomerAddMessageWrite_StaysResolved(c, t) == addMessage(ticket[t], c, FALSE)

CustomerAddMessageWrite(c, t) == CustomerAddMessageWriteIn(ticket, c, t)

\* the body of the addMessageToTicket response, taken from the stored ticket
MessagesView(tdoc) ==
  [messages |-> FilterInternal(tdoc.messages), status |-> tdoc.status]

CustomerAddMessageResponseIn(tk, c, t) ==
  LET r == CustomerAddMessageResultIn(tk, c, t) IN
  IF r = "OK" THEN Answer(r, MessagesView(CustomerAddMessageWriteIn(tk, c, t)))
  ELSE Answer(r, None)

\* addMessageToTicket of the customer routes
customerAddMessageToTicket(c, t) ==
  /\ last = NoRequest
  /\ t \in DOMAIN ticket => Len(ticket[t].messages) < MaxMessages
  /\ LET r == CustomerAddMessageResult(c, t) IN
     /\ ticket' = IF r = "OK"
                  THEN [ticket EXCEPT ![t] = CustomerAddMessageWrite(c, t)]
                  ELSE ticket
     /\ last' = ServedTicket("customerAddMessageToTicket", c, t,
                             IF r = "OK" THEN Answer(r, MessagesView(ticket'[t]))
                             ELSE Answer(r, None))
  /\ UNCHANGED <<order, staff, branch, overrides, call, failures, user>>

\* mutant: a ticket that already holds a rating can be rated again
RateTicketResolutionResult_NoRatedCheck(c, t, rating) ==
  IF rating = 0 \/ rating < 1 \/ rating > 5 THEN "INVALID_RATING"
  ELSE IF ~OwnTicket(c, t) \/ ticket[t].status # TICKET_STATUS.RESOLVED
       THEN "TICKET_NOT_FOUND"
  ELSE "OK"

RateTicketResolutionResult(c, t, rating) ==
  IF rating = 0 \/ rating < 1 \/ rating > 5 THEN "INVALID_RATING"
  ELSE IF ~OwnTicket(c, t) \/ ticket[t].status # TICKET_STATUS.RESOLVED
       THEN "TICKET_NOT_FOUND"
  ELSE IF ticket[t].rating # 0 THEN "ALREADY_RATED"
  ELSE "OK"

RateTicketResolutionWrite(t, rating) ==
  [ticket[t] EXCEPT !.rating = rating, !.status = TICKET_STATUS.CLOSED]

rateTicketResolution(c, t, rating) ==
  TicketRequest("rateTicketResolution", c, t, RateTicketResolutionResult(c, t, rating),
                RateTicketResolutionWrite(t, rating))

\* getTicketById of the customer routes: the ticket without internal messages
GetTicketByIdResponseIn(tk, c, t) ==
  IF ~OwnTicketIn(tk, c, t) THEN Answer("TICKET_NOT_FOUND", None)
  ELSE Answer("OK", [tk[t] EXCEPT !.messages = FilterInternal(@)])

getTicketById(c, t) ==
  /\ last = NoRequest
  /\ last' = ServedTicket("getTicketById", c, t, GetTicketByIdResponseIn(ticket, c, t))
  /\ UNCHANGED <<order, staff, branch, overrides, call, failures, user, ticket>>

\* getCustomerTickets: the caller's tickets, each without its messages
GetCustomerTicketsResponseIn(tk, c) ==
  Answer("OK",
         { [ id         |-> t,
             status     |-> tk[t].status,
             priority   |-> tk[t].priority,
             assignedTo |-> tk[t].assignedTo,
             rating     |-> tk[t].rating ] :
           t \in { x \in DOMAIN tk : tk[x].raisedBy = c } })

getCustomerTickets(c) ==
  /\ last = NoRequest
  /\ last' = ServedTicket("getCustomerTickets", c, None,
                          GetCustomerTicketsResponseIn(ticket, c))
  /\ UNCHANGED <<order, staff, branch, overrides, call, failures, user, ticket>>

\* the support routes, called by two agents and an admin
NextSupport ==
  \/ \E u \in SupportCallers, t \in TicketInputs,
        status \in TicketStatusInputs, priority \in TicketPriorityInputs :
       updateTicketStatus(u, t, status, priority)
  \/ \E u \in SupportCallers, t \in TicketInputs, a \in {"a1", "a2", "c1", None} :
       assignTicket(u, t, a)
  \/ \E u \in SupportCallers, t \in TicketInputs :
       supportAddMessageToTicket(u, t, FALSE)
  \/ \E u \in SupportCallers, t \in TicketInputs, e \in {"ad", "a1", None} :
       escalateTicket(u, t, e)
  \/ \E u \in SupportCallers, t \in TicketInputs : resolveTicket(u, t)
  \/ Respond

SpecSupport == Init /\ [][NextSupport]_vars

\* the agent who works on the tickets while the customers call their routes
CustomerSpecAgent == "a1"

\* the customer routes, with one agent answering, resolving and reopening
NextCustomer ==
  \/ \E c \in CustomerCallers, t \in TicketInputs : customerAddMessageToTicket(c, t)
  \/ \E c \in CustomerCallers, t \in TicketInputs, rating \in {0, 1, 5, 6} :
       rateTicketResolution(c, t, rating)
  \/ \E c \in CustomerCallers, t \in TicketInputs : getTicketById(c, t)
  \/ \E c \in CustomerCallers : getCustomerTickets(c)
  \/ \E t \in TicketInputs,
        status \in TicketStatusInputs, priority \in TicketPriorityInputs :
       updateTicketStatus(CustomerSpecAgent, t, status, priority)
  \/ \E t \in TicketInputs, isInternal \in BOOLEAN :
       supportAddMessageToTicket(CustomerSpecAgent, t, isInternal)
  \/ \E t \in TicketInputs : resolveTicket(CustomerSpecAgent, t)
  \/ Respond

SpecCustomer == Init /\ [][NextCustomer]_vars

----------------------------------------------------------------------------
\* Accounts and branches: register (public), createBranch, createUser and
\* updateUserRole (center admin)

RegisterResult(email) == IF email \in DOMAIN user THEN "USER_EXISTS" ELSE "OK"

\* collection coll with document doc stored under id
Created(coll, id, doc) ==
  [x \in DOMAIN coll \cup {id} |-> IF x = id THEN doc ELSE coll[x]]

register(email, role) ==
  /\ last = NoRequest
  /\ LET r == RegisterResult(email) IN
     /\ user' = IF r = "OK"
                THEN Created(user, email,
                             [role |-> IF role # None THEN role
                                       ELSE USER_ROLES.CUSTOMER,
                              assignedBranch |-> None])
                ELSE user
     /\ last' = Served("register", r)
  /\ UNCHANGED <<order, staff, branch, overrides, call, failures, ticket>>

\* some user other than u is a branch manager assigned to branch b
HasManager(b, u) ==
  \E x \in DOMAIN user \ {u} :
    user[x].role = USER_ROLES.BRANCH_MANAGER /\ user[x].assignedBranch = b

CreateBranchResult(code, managerId) ==
  IF code \in DOMAIN branch THEN "BRANCH_CODE_EXISTS"
  ELSE IF managerId # None
       THEN IF \/ managerId \notin DOMAIN user
               \/ user[managerId].role # USER_ROLES.BRANCH_MANAGER
            THEN "INVALID_MANAGER"
            ELSE IF \E b \in DOMAIN branch : branch[b].manager = managerId
            THEN "MANAGER_ALREADY_ASSIGNED"
            ELSE "OK"
  ELSE "OK"

createBranch(code, managerId) ==
  /\ last = NoRequest
  /\ LET r == CreateBranchResult(code, managerId) IN
     /\ branch' = IF r = "OK"
                  THEN Created(branch, code, [isActive |-> TRUE, manager |-> managerId])
                  ELSE branch
     /\ user' = IF r = "OK" /\ managerId # None
                THEN [user EXCEPT ![managerId].assignedBranch = code]
                ELSE user
     /\ last' = Served("createBranch", r)
  /\ UNCHANGED <<order, staff, overrides, call, failures, ticket>>

CreateUserResult(email, role, assignedBranch) ==
  IF email \in DOMAIN user THEN "USER_EXISTS"
  ELSE IF role = USER_ROLES.BRANCH_MANAGER /\ assignedBranch # None
       THEN IF assignedBranch \notin DOMAIN branch THEN "BRANCH_NOT_FOUND"
            ELSE IF HasManager(assignedBranch, None) THEN "BRANCH_HAS_MANAGER"
            ELSE "OK"
  ELSE "OK"

createUser(email, role, assignedBranch) ==
  /\ last = NoRequest
  /\ LET r == CreateUserResult(email, role, assignedBranch)
         b == IF role = USER_ROLES.BRANCH_MANAGER THEN assignedBranch ELSE None
     IN
     /\ user' = IF r = "OK"
                THEN Created(user, email, [role |-> role, assignedBranch |-> b])
                ELSE user
     /\ branch' = IF r = "OK" /\ b # None
                  THEN [branch EXCEPT ![b].manager = email]
                  ELSE branch
     /\ last' = Served("createUser", r)
  /\ UNCHANGED <<order, staff, overrides, call, failures, ticket>>

UpdateUserRoleResult(userId, role, assignedBranch) ==
  IF userId \notin DOMAIN user THEN "USER_NOT_FOUND"
  ELSE IF role = USER_ROLES.BRANCH_MANAGER /\ assignedBranch # None
       THEN IF assignedBranch \notin DOMAIN branch THEN "BRANCH_NOT_FOUND"
            ELSE IF HasManager(assignedBranch, userId) THEN "BRANCH_HAS_MANAGER"
            ELSE "OK"
  ELSE "OK"

\* the branches after the first write of updateUserRole, which comes before
\* the checks of the new branch: the manager reference of the user's old
\* branch is removed
UpdateUserRoleUnset(userId, r) ==
  IF /\ r # "USER_NOT_FOUND"
     /\ user[userId].role = USER_ROLES.BRANCH_MANAGER
     /\ user[userId].assignedBranch \in DOMAIN branch
  THEN [branch EXCEPT ![user[userId].assignedBranch].manager = None]
  ELSE branch

updateUserRole(userId, role, assignedBranch) ==
  /\ last = NoRequest
  /\ LET r == UpdateUserRoleResult(userId, role, assignedBranch)
         b == IF role = USER_ROLES.BRANCH_MANAGER THEN assignedBranch ELSE None
         unset == UpdateUserRoleUnset(userId, r)
     IN
     /\ branch' = IF r = "OK" /\ b # None
                  THEN [unset EXCEPT ![b].manager = userId]
                  ELSE unset
     /\ user' = IF r = "OK"
                THEN [user EXCEPT ![userId] = [role |-> role, assignedBranch |-> b]]
                ELSE user
     /\ last' = Served("updateUserRole", r)
  /\ UNCHANGED <<order, staff, overrides, call, failures, ticket>>

\* the roles the requests name
RoleInputs == {USER_ROLES.BRANCH_MANAGER, USER_ROLES.ADMIN}

\* an account is identified by its email and a branch by its code; "u3",
\* "u4" and "b3" are not taken at the start, "u9" and "b9" never exist
NextAccounts ==
  \/ \E email \in {"u1", "u3", "u4"}, role \in RoleInputs \cup {None} :
       register(email, role)
  \/ \E code \in {"b1", "b3"}, m \in {"u1", "u2", "c1", "u9", None} :
       createBranch(code, m)
  \/ \E email \in {"u1", "u3", "u4"}, role \in RoleInputs, b \in BranchInputs :
       createUser(email, role, b)
  \/ \E u \in {"u1", "u2", "u3", "u9"}, role \in RoleInputs, b \in BranchInputs :
       updateUserRole(u, role, b)
  \/ Respond

SpecAccounts == Init /\ [][NextAccounts]_vars

----------------------------------------------------------------------------
\* Properties

\* the last entry of a status history
LastStatus(odoc) == odoc.statusHistory[Len(odoc.statusHistory)]

\* C1: every order's statusHistory is non-empty and the status of its last
\* entry is the order's current status, in every state the five handlers
\* (accepted or rejected) can reach.
C1_HistoryTracksStatus ==
  \A o \in DOMAIN order :
    /\ Len(order[o].statusHistory) > 0
    /\ LastStatus(order[o]) = order[o].status

\* C1 witness: an order that went through branch assignment, staff
\* assignment, logistics assignment and a branch update has just been
\* overridden by the admin.
C1_Witness ==
  /\ last.op = "adminUpdateOrderStatus" /\ last.res = "OK"
  /\ \E o \in DOMAIN order :
       /\ Len(order[o].statusHistory) >= 5
       /\ order[o].statusHistory[4] = ORDER_STATUS.PICKED
       /\ Len(order[o].assignedStaff) > 0

----------------------------------------------------------------------------
\* C2

\* the six rows the branch handler may accept
C2_Rows ==
  { <<ORDER_STATUS.ASSIGNED_TO_LOGISTICS_PICKUP, ORDER_STATUS.PICKED>>,
    <<ORDER_STATUS.PICKED, ORDER_STATUS.IN_PROCESS>>,
    <<ORDER_STATUS.IN_PROCESS, ORDER_STATUS.READY>>,
    <<ORDER_STATUS.READY, ORDER_STATUS.ASSIGNED_TO_LOGISTICS_DELIVERY>>,
    <<ORDER_STATUS.ASSIGNED_TO_LOGISTICS_DELIVERY, ORDER_STATUS.OUT_FOR_DELIVERY>>,
    <<ORDER_STATUS.OUT_FOR_DELIVERY, ORDER_STATUS.DELIVERED>> }

\* status and history of order o are left as they were
StatusKept(o) ==
  /\ order'[o].status = order[o].status
  /\ order'[o].statusHistory = order[o].statusHistory

\* the caller passes the branch access check on order o: not a branch
\* manager, or the manager of the order's branch
HasAccess(c, o) ==
  \/ c.role # USER_ROLES.BRANCH_MANAGER
  \/ (order[o].branch # None /\ order[o].branch = c.assignedBranch)

\* C2 as claimed: for every caller of the branch updateOrderStatus and every
\* (current, requested) pair, the change is accepted only for the six rows,
\* and every other pair fails with INVALID_TRANSITION and leaves the order's
\* status and history unchanged.
C2_Original ==
  [][ last'.op = "branchUpdateOrderStatus" =>
      \A c \in Callers, o \in DOMAIN order \cap {last'.order}, st \in StatusInputs :
        branchUpdateOrderStatus(c, o, st) =>
          /\ last'.res = "OK" => <<order[o].status, st>> \in C2_Rows
          /\ <<order[o].status, st>> \notin C2_Rows =>
               last'.res = "INVALID_TRANSITION" /\ StatusKept(o) ]_vars

\* C2 as amended: the change is accepted only for the six rows; every other
\* pair fails and leaves status and history unchanged, with
\* INVALID_TRANSITION when the caller passes the branch access check, and
\* with the access check's own error otherwise (FORBIDDEN, or the TypeError
\* thrown for a manager without assignedBranch).
C2_TableOnly ==
  [][ last'.op = "branchUpdateOrderStatus" =>
      \A c \in Callers, o \in DOMAIN order \cap {last'.order}, st \in StatusInputs :
        branchUpdateOrderStatus(c, o, st) =>
          /\ last'.res = "OK" => <<order[o].status, st>> \in C2_Rows
          /\ <<order[o].status, st>> \notin C2_Rows =>
               /\ StatusKept(o)
               /\ HasAccess(c, o) => last'.res = "INVALID_TRANSITION"
               /\ ~HasAccess(c, o) =>
                    /\ last'.res \in {"FORBIDDEN", "TYPE_ERROR"}
                    /\ last'.res = "TYPE_ERROR" => c.assignedBranch = None ]_vars

\* C2 witness: an order that the branch handler took through rows of the
\* table up to DELIVERED, and on which a further request has just been
\* refused with INVALID_TRANSITION.
C2_Witness ==
  /\ last.op = "branchUpdateOrderStatus" /\ last.res = "INVALID_TRANSITION"
  /\ last.order \in DOMAIN order
  /\ order[last.order].status = ORDER_STATUS.DELIVERED
  /\ Len(order[last.order].statusHistory) >= 8

----------------------------------------------------------------------------
\* C3

\* C3 as claimed: assignOrderToBranch of a PLACED order to an active branch
\* succeeds while the branch's same-day count is below maxOrdersPerDay, and
\* once the count has reached maxOrdersPerDay it fails with BRANCH_FULL and
\* leaves the order in PLACED with no branch.
C3_CapacityRespected ==
  [][ \A o \in DOMAIN order \cap {last'.order}, b \in Branches :
        ( /\ assignOrderToBranch(o, b)
          /\ order[o].status = ORDER_STATUS.PLACED
          /\ branch[b].isActive ) =>
          IF SameDayCount(b) < maxOrdersPerDay[b]
          THEN last'.res = "OK" /\ order'[o].branch = b
          ELSE /\ last'.res = "BRANCH_FULL"
               /\ order'[o].status = ORDER_STATUS.PLACED
               /\ order'[o].branch = None ]_vars

----------------------------------------------------------------------------
\* C4

\* the status a leg requires
C4_Required(type) ==
  IF type = "pickup" THEN ORDER_STATUS.ASSIGNED_TO_BRANCH ELSE ORDER_STATUS.READY

\* status, logisticsPartner and history of order o are left as they were
C4_Kept(o) ==
  /\ StatusKept(o)
  /\ order'[o].logisticsPartner = order[o].logisticsPartner

\* C4 as claimed: on an existing order whose status is not the one the leg
\* requires, assignOrderToLogistics fails with INVALID_STATUS for every
\* existing active partner, covering or not, and leaves status,
\* logisticsPartner and history unchanged.
C4_Original ==
  [][ \A o \in DOMAIN order \cap {last'.order}, p \in Partners,
         type \in {"pickup", "delivery"} :
        ( /\ assignOrderToLogistics(o, p, type)
          /\ partnerActive[p]
          /\ order[o].status # C4_Required(type) ) =>
          last'.res = "INVALID_STATUS" /\ C4_Kept(o) ]_vars

\* C4 as amended: such a call always fails and leaves status,
\* logisticsPartner and history unchanged; it fails with INVALID_STATUS when
\* the partner covers the leg's pincode, and with AREA_NOT_COVERED when it
\* does not (coverage is checked before the status).
C4_WrongStatusRejected ==
  [][ \A o \in DOMAIN order \cap {last'.order}, p \in Partners,
         type \in {"pickup", "delivery"} :
        ( /\ assignOrderToLogistics(o, p, type)
          /\ partnerActive[p]
          /\ order[o].status # C4_Required(type) ) =>
          /\ C4_Kept(o)
          /\ last'.res =
               IF (IF type = "pickup" THEN pickupPincode[o] ELSE deliveryPincode[o])
                    \in partnerPincodes[p]
               THEN "INVALID_STATUS" ELSE "AREA_NOT_COVERED" ]_vars

\* C4 witness: a logistics assignment has just been refused with
\* INVALID_STATUS on an order that is past its pickup assignment and not
\* READY.
C4_Witness ==
  /\ last.op = "assignOrderToLogistics" /\ last.res = "INVALID_STATUS"
  /\ last.order \in DOMAIN order
  /\ order[last.order].status = ORDER_STATUS.PICKED
  /\ order[last.order].logisticsPartner # None

----------------------------------------------------------------------------
\* C5

\* lengths of order o's assignedStaff and staff s's currentOrders are kept
C5_LengthsKept(o, s) ==
  /\ Len(order'[o].assignedStaff) = Len(order[o].assignedStaff)
  /\ Len(staff'[s].currentOrders) = Len(staff[s].currentOrders)

\* C5 as claimed: once staff s is in order o's assignedStaff, every later
\* assignStaffToOrder(o, s) (by a caller with access to the order) fails with
\* ALREADY_ASSIGNED, whatever the staff's limit and workload, and leaves
\* both lengths unchanged.
C5_Original ==
  [][ last'.op = "assignStaffToOrder" =>
      \A c \in Callers, o \in DOMAIN order \cap {last'.order}, s \in StaffMembers :
        ( /\ assignStaffToOrder(c, o, s)
          /\ HasAccess(c, o) /\ (c.role = USER_ROLES.BRANCH_MANAGER => c.assignedBranch # None)
          /\ s \in SeqToSet(order[o].assignedStaff) ) =>
          last'.res = "ALREADY_ASSIGNED" /\ C5_LengthsKept(o, s) ]_vars

\* C5 as amended: such a call always fails and leaves both lengths
\* unchanged; it fails with ALREADY_ASSIGNED only when the staff member still
\* passes the checks made before the duplicate check (active, same branch,
\* workload below the limit), and with the error of the first of those
\* checks that fails otherwise: STAFF_UNAVAILABLE when the first assignment
\* filled the staff member's last free slot.
C5_SecondAssignRejected ==
  [][ last'.op = "assignStaffToOrder" =>
      \A c \in Callers, o \in DOMAIN order \cap {last'.order}, s \in StaffMembers :
        ( /\ assignStaffToOrder(c, o, s)
          /\ HasAccess(c, o) /\ (c.role = USER_ROLES.BRANCH_MANAGER => c.assignedBranch # None)
          /\ s \in SeqToSet(order[o].assignedStaff) ) =>
          /\ C5_LengthsKept(o, s)
          /\ last'.res =
               IF ~staff[s].isActive THEN "STAFF_NOT_FOUND"
               ELSE IF staff[s].branch # order[o].branch THEN "STAFF_BRANCH_MISMATCH"
               ELSE IF Len(staff[s].currentOrders) >= staffLimit[s]
                    THEN "STAFF_UNAVAILABLE"
               ELSE "ALREADY_ASSIGNED" ]_vars

\* C5 witness: a second assignment of the same staff member to the same
\* order has just been refused with ALREADY_ASSIGNED.
C5_Witness ==
  /\ last.op = "assignStaffToOrder" /\ last.res = "ALREADY_ASSIGNED"
  /\ last.order \in DOMAIN order
  /\ Len(order[last.order].assignedStaff) > 0

----------------------------------------------------------------------------
\* C6

\* C6 as claimed: in every observable state, a staff member listed in an
\* order's assignedStaff has that order in currentOrders; the two writes of
\* assignStaffToOrder take effect as one unit, also when the request is
\* interrupted or its second write fails.
C6_ReciprocalBookkeeping ==
  \A o \in DOMAIN order :
    \A s \in SeqToSet(order[o].assignedStaff) :
      o \in SeqToSet(staff[s].currentOrders)

----------------------------------------------------------------------------
\* C7

\* the staff id names no staff member, or one that is inactive
C7_Absent(s) == s \notin StaffMembers \/ ~staff[s].isActive

\* the staff member's workload is not below the limit
C7_Full(s) == s \in StaffMembers /\ Len(staff[s].currentOrders) >= staffLimit[s]

----------------------------------------------------------------------------
\* C8

\* C8 as claimed: under every interleaving of concurrent assignStaffToOrder
\* requests naming the same staff member, the length of that staff member's
\* currentOrders never exceeds the limit.
C8_LimitRespected ==
  \A s \in StaffMembers : Len(staff[s].currentOrders) <= staffLimit[s]

----------------------------------------------------------------------------
\* C9

\* an order's branch is set exactly when its status is not PLACED
C9_BranchIffPastPlaced(o) ==
  (order[o].branch # None) <=> (order[o].status # ORDER_STATUS.PLACED)

\* C9 as claimed: in every state reachable by the order operations, the
\* admin updateOrderStatus included, an order's branch is set if and only if
\* its status is not PLACED.
C9_Original == \A o \in DOMAIN order : C9_BranchIffPastPlaced(o)

\* C9 as amended: the equivalence holds in every state reachable by
\* assignOrderToBranch, assignOrderToLogistics, the branch updateOrderStatus
\* and assignStaffToOrder, that is as long as no admin updateOrderStatus has
\* been accepted; the admin override moves the status without touching the
\* branch.
C9_BranchIffPastPlacedUntilOverride ==
  overrides = 0 => \A o \in DOMAIN order : C9_BranchIffPastPlaced(o)

\* C9 witness: an order has been assigned to a branch and taken to
\* DELIVERED without any admin override.
C9_Witness ==
  /\ overrides = 0
  /\ \E o \in DOMAIN order :
       order[o].branch # None /\ order[o].status = ORDER_STATUS.DELIVERED

----------------------------------------------------------------------------
\* C10

\* order o enters ASSIGNED_TO_LOGISTICS_DELIVERY in this step, and the step
\* is not an admin override
C10_Enters(o) ==
  /\ order'[o].status = ORDER_STATUS.ASSIGNED_TO_LOGISTICS_DELIVERY
  /\ order[o].status # ORDER_STATUS.ASSIGNED_TO_LOGISTICS_DELIVERY
  /\ last'.op # "adminUpdateOrderStatus"

\* the order's logisticsPartner after the step is an active partner that
\* covers the delivery pincode
C10_DeliveryPartner(o) ==
  /\ order'[o].logisticsPartner \in Partners
  /\ partnerActive[order'[o].logisticsPartner]
  /\ deliveryPincode[o] \in partnerPincodes[order'[o].logisticsPartner]

\* C10 as claimed: admin overrides aside, an order reaches
\* ASSIGNED_TO_LOGISTICS_DELIVERY only through a successful
\* assignOrderToLogistics of the delivery leg, with an active partner that
\* covers the delivery pincode; a branch status update from READY to
\* ASSIGNED_TO_LOGISTICS_DELIVERY is rejected.
C10_Original ==
  [][ /\ \A o \in DOMAIN order :
           C10_Enters(o) =>
             last'.op = "assignOrderToLogistics" /\ C10_DeliveryPartner(o)
      /\ \A c \in Callers, o \in DOMAIN order \cap {last'.order} :
           ( /\ branchUpdateOrderStatus(c, o, ORDER_STATUS.ASSIGNED_TO_LOGISTICS_DELIVERY)
             /\ order[o].status = ORDER_STATUS.READY ) =>
             last'.res # "OK" ]_vars

\* C10 as amended: admin overrides aside, an order reaches
\* ASSIGNED_TO_LOGISTICS_DELIVERY only from READY, and only in one of two
\* ways: a successful assignOrderToLogistics of the delivery leg, which sets
\* logisticsPartner to an active partner covering the delivery pincode, or a
\* branch updateOrderStatus READY -> ASSIGNED_TO_LOGISTICS_DELIVERY, which
\* the branch table accepts from every caller with access to the order,
\* without any logistics assignment, leaving logisticsPartner as it was.
C10_DeliveryEntry ==
  [][ /\ \A o \in DOMAIN order :
           C10_Enters(o) =>
             /\ order[o].status = ORDER_STATUS.READY
             /\ \/ last'.op = "assignOrderToLogistics" /\ C10_DeliveryPartner(o)
                \/ /\ last'.op = "branchUpdateOrderStatus"
                   /\ order'[o].logisticsPartner = order[o].logisticsPartner
      /\ \A c \in Callers, o \in DOMAIN order \cap {last'.order} :
           ( /\ branchUpdateOrderStatus(c, o, ORDER_STATUS.ASSIGNED_TO_LOGISTICS_DELIVERY)
             /\ order[o].status = ORDER_STATUS.READY
             /\ HasAccess(c, o)
             /\ (c.role = USER_ROLES.BRANCH_MANAGER => c.assignedBranch # None) ) =>
             last'.res = "OK" ]_vars

\* C10 witness: a branch status update has just put an order into
\* ASSIGNED_TO_LOGISTICS_DELIVERY while its logisticsPartner is still the
\* pickup partner, which does not cover the delivery pincode.
C10_Witness ==
  /\ last.op = "branchUpdateOrderStatus" /\ last.res = "OK"
  /\ last.order \in DOMAIN order
  /\ order[last.order].status = ORDER_STATUS.ASSIGNED_TO_LOGISTICS_DELIVERY
  /\ order[last.order].logisticsPartner \in Partners
  /\ deliveryPincode[last.order] \notin partnerPincodes[order[last.order].logisticsPartner]

----------------------------------------------------------------------------
\* C11

\* C11 as claimed: whenever a call of one of the five handlers ends in an
\* error, a business-rule rejection or a rejected storage write, the
\* persisted Order and Staff documents are what they were before the call.
C11_NoPartialState ==
  [][ (last' # NoRequest /\ last'.res # "OK") =>
        (order' = order /\ staff' = staff) ]_vars

----------------------------------------------------------------------------
\* C12

\* capacity is available at branch b: its same-day order count is below
\* maxOrdersPerDay
C12_CapacityAvailable(b) == SameDayCount(b) < maxOrdersPerDay[b]

\* the errors the claim allows for a call on order o and branch b: one for
\* each precondition that does not hold
C12_Errors(o, b) ==
  (IF o \notin DOMAIN order THEN {"ORDER_NOT_FOUND"} ELSE {}) \cup
  (IF o \in DOMAIN order /\ order[o].status # ORDER_STATUS.PLACED
     THEN {"INVALID_STATUS"} ELSE {}) \cup
  (IF b \notin Branches \/ ~branch[b].isActive THEN {"BRANCH_NOT_FOUND"} ELSE {}) \cup
  (IF b \in Branches /\ ~C12_CapacityAvailable(b) THEN {"BRANCH_FULL"} ELSE {})

\* C12 as claimed: assignOrderToBranch for a target branch succeeds if and
\* only if the order exists in PLACED, the branch exists and is active and
\* capacity is available; a success sets the order's branch to the target
\* and its status to ASSIGNED_TO_BRANCH; a failure answers with the error of
\* a precondition that does not hold and leaves the order unchanged.
C12_SucceedsIff ==
  [][ last'.op = "assignOrderToBranch" =>
      \A o \in OrderInputs \cap {last'.order}, b \in BranchInputs \ {None} :
        assignOrderToBranch(o, b) =>
          /\ last'.res = "OK" <=> C12_Errors(o, b) = {}
          /\ last'.res = "OK" =>
               /\ order'[o].branch = b
               /\ order'[o].status = ORDER_STATUS.ASSIGNED_TO_BRANCH
          /\ last'.res # "OK" =>
               last'.res \in C12_Errors(o, b) /\ order' = order ]_vars

----------------------------------------------------------------------------
\* C13

\* C13: assignOrderToLogistics on an existing order succeeds only with a
\* partner that exists, is active and whose pincodes include the pincode of
\* the leg's address (pickupAddress for the pickup leg, deliveryAddress for
\* the delivery leg); with an existing active partner that does not cover
\* that pincode the answer is AREA_NOT_COVERED, whatever the order's status,
\* and the order's status and logisticsPartner stay as they were.
C13_CoverageRequired ==
  [][ last'.op = "assignOrderToLogistics" =>
      \A o \in DOMAIN order \cap {last'.order}, p \in PartnerInputs \ {None},
         type \in {"pickup", "delivery"} :
        assignOrderToLogistics(o, p, type) =>
          LET pincode == IF type = "pickup" THEN pickupPincode[o]
                         ELSE deliveryPincode[o]
              usable  == p \in Partners /\ partnerActive[p]
          IN
          /\ last'.res = "OK" => (usable /\ pincode \in partnerPincodes[p])
          /\ (usable /\ pincode \notin partnerPincodes[p]) =>
               /\ last'.res = "AREA_NOT_COVERED"
               /\ order'[o].status = order[o].status
               /\ order'[o].logisticsPartner = order[o].logisticsPartner ]_vars

\* C13 witness: a logistics assignment on a READY order has just been
\* refused with AREA_NOT_COVERED, the order keeping its pickup partner.
C13_Witness ==
  /\ last.op = "assignOrderToLogistics" /\ last.res = "AREA_NOT_COVERED"
  /\ last.order \in DOMAIN order
  /\ order[last.order].status = ORDER_STATUS.READY
  /\ order[last.order].logisticsPartner # None

----------------------------------------------------------------------------
\* C14

\* C14 as claimed: assignStaffToOrder with an active staff member whose
\* branch differs from the order's branch, an order without branch included,
\* by any caller that passes the access check, is answered with the tagged
\* error STAFF_BRANCH_MISMATCH and changes nothing.
C14_MismatchTagged ==
  [][ last'.op = "assignStaffToOrder" =>
      \A c \in Callers, o \in DOMAIN order \cap {last'.order}, s \in StaffMembers :
        ( /\ assignStaffToOrder(c, o, s)
          /\ BranchAccess(c, order[o]) = "PASS"
          /\ staff[s].isActive
          /\ staff[s].branch # order[o].branch ) =>
          /\ last'.res = "STAFF_BRANCH_MISMATCH"
          /\ order' = order /\ staff' = staff ]_vars

----------------------------------------------------------------------------
\* C15

\* the branch of order o is unset or is not the caller's assignedBranch
C15_Foreign(c, o) ==
  order[o].branch = None \/ order[o].branch # c.assignedBranch

\* C15 as claimed: for a caller with role branch_manager and an order whose
\* branch is unset or differs from the caller's assignedBranch, the branch
\* updateOrderStatus and assignStaffToOrder (with a staff id) answer
\* FORBIDDEN and leave the order and every staff record unchanged.
C15_ForeignOrderForbidden ==
  [][ \A c \in Callers, o \in DOMAIN order \cap {last'.order} :
        ( /\ c.role = USER_ROLES.BRANCH_MANAGER
          /\ C15_Foreign(c, o)
          /\ \/ \E st \in StatusInputs : branchUpdateOrderStatus(c, o, st)
             \/ \E s \in StaffInputs \ {None} : assignStaffToOrder(c, o, s) ) =>
          /\ last'.res = "FORBIDDEN"
          /\ order' = order /\ staff' = staff ]_vars

----------------------------------------------------------------------------
\* C16

\* C16: in every reachable state, terminal ones included, the admin
\* updateOrderStatus on an existing order answers OK exactly for the ten
\* values of ORDER_STATUS and INVALID_STATUS for any other target; an
\* accepted override sets the status to the target and appends one history
\* entry, a rejected one leaves the order unchanged; and after every step
\* every order's status is a member of the enumeration.
C16_AdminOverride ==
  [][ /\ \A o \in DOMAIN order, st \in StatusInputs :
           /\ AdminUpdateOrderStatusResult(o, st) = "OK" <=> st \in validStatuses
           /\ st \notin validStatuses =>
                AdminUpdateOrderStatusResult(o, st) = "INVALID_STATUS"
      /\ \A o \in DOMAIN order \cap {last'.order}, st \in StatusInputs :
           adminUpdateOrderStatus(o, st) =>
             IF st \in validStatuses
             THEN /\ last'.res = "OK"
                  /\ order'[o].status = st
                  /\ order'[o].statusHistory = Append(order[o].statusHistory, st)
             ELSE last'.res = "INVALID_STATUS" /\ order' = order
      /\ \A o \in DOMAIN order : order'[o].status \in validStatuses ]_vars

\* C16 witness: the admin has just overridden a DELIVERED order.
C16_Witness ==
  /\ last.op = "adminUpdateOrderStatus" /\ last.res = "OK"
  /\ last.order \in DOMAIN order
  /\ LET h == order[last.order].statusHistory IN
       Len(h) >= 2 /\ h[Len(h) - 1] = ORDER_STATUS.DELIVERED

----------------------------------------------------------------------------
\* C17

\* the request just served was an accepted status change of order o
C17_StatusChanged(o) ==
  /\ last'.order = o
  /\ last'.res = "OK"
  /\ last'.op \in {"assignOrderToBranch", "assignOrderToLogistics",
                   "branchUpdateOrderStatus", "adminUpdateOrderStatus"}

\* C17: every accepted status change (branch assignment, logistics
\* assignment, branch status update, admin override) lengthens the order's
\* statusHistory by exactly one entry, the new status, and keeps the earlier
\* entries; every rejected request and every assignStaffToOrder request,
\* accepted or not, leaves every statusHistory as it was.
C17_AppendOnly ==
  [][ \A o \in DOMAIN order :
        IF C17_StatusChanged(o)
        THEN /\ Len(order'[o].statusHistory) = Len(order[o].statusHistory) + 1
             /\ SubSeq(order'[o].statusHistory, 1, Len(order[o].statusHistory))
                  = order[o].statusHistory
             /\ LastStatus(order'[o]) = order'[o].status
        ELSE order'[o].statusHistory = order[o].statusHistory ]_vars

\* C17 witness: a staff assignment has just been accepted on an order whose
\* history already holds the entries of four status changes.
C17_Witness ==
  /\ last.op = "assignStaffToOrder" /\ last.res = "OK"
  /\ last.order \in DOMAIN order
  /\ Len(order[last.order].statusHistory) = 5
  /\ Len(order[last.order].assignedStaff) = 1

----------------------------------------------------------------------------
\* C18

\* no value occurs twice in sequence q
C18_NoDuplicates(q) ==
  \A i, j \in 1..Len(q) : q[i] = q[j] => i = j

\* sequence q starts with sequence r
C18_Extends(q, r) ==
  Len(q) >= Len(r) /\ SubSeq(q, 1, Len(r)) = r

\* C18 as claimed: under every interleaving of concurrent assignStaffToOrder
\* requests on the same order, each staff member appears at most once in
\* the order's assignedStaff, and assignedStaff only grows: no entry is
\* removed or reordered.
C18_AssignedOnce ==
  [][ \A o \in DOMAIN order :
        /\ C18_NoDuplicates(order'[o].assignedStaff)
        /\ C18_Extends(order'[o].assignedStaff, order[o].assignedStaff) ]_vars

----------------------------------------------------------------------------
\* C19

\* the number of entries of history h with status st
C19_Entries(h, st) == Cardinality({ i \in 1..Len(h) : h[i] = st })

\* C19 as claimed: under every interleaving of concurrent assignOrderToBranch
\* requests on one PLACED order at most one succeeds, so the order's history
\* holds at most one ASSIGNED_TO_BRANCH entry; likewise at most one
\* ASSIGNED_TO_LOGISTICS_PICKUP entry under concurrent assignOrderToLogistics
\* requests of the pickup leg.
C19_OneWinner ==
  \A o \in DOMAIN order :
    /\ C19_Entries(order[o].statusHistory, ORDER_STATUS.ASSIGNED_TO_BRANCH) <= 1
    /\ C19_Entries(order[o].statusHistory,
                   ORDER_STATUS.ASSIGNED_TO_LOGISTICS_PICKUP) <= 1

----------------------------------------------------------------------------
\* C20

\* the last entry of a non-empty sequence
C20_Last(q) == q[Len(q)]

\* C20 as claimed: a write that assigns an order to a branch finds the
\* branch active at the moment of the write, also when toggleBranchStatus is
\* served between the activity check and the write; likewise a write that
\* adds a staff member to an order finds the staff member active, also when
\* updateStaff is served in between.
C20_ActiveAtWrite ==
  [][ \A o \in DOMAIN order :
        /\ order'[o].branch # order[o].branch =>
             branch[order'[o].branch].isActive
        /\ Len(order'[o].assignedStaff) > Len(order[o].assignedStaff) =>
             staff[C20_Last(order'[o].assignedStaff)].isActive ]_vars

----------------------------------------------------------------------------
\* C21

\* the request just served addressed staff member s: the step appended s to
\* the assignedStaff of the addressed order
C21_Addressed(s) ==
  /\ last'.op = "assignStaffToOrder"
  /\ last'.order \in DOMAIN order
  /\ order'[last'.order].assignedStaff
       = Append(order[last'.order].assignedStaff, s)

----------------------------------------------------------------------------
\* C22

C22_Managers == { c \in Callers : c.role = USER_ROLES.BRANCH_MANAGER }

\* the three read routes answer queries q1 and q2 of caller c alike
C22_SameListing(c, q1, q2) ==
  /\ GetBranchDashboardResponse(c, q1) = GetBranchDashboardResponse(c, q2)
  /\ GetBranchOrdersResponse(c, q1) = GetBranchOrdersResponse(c, q2)
  /\ GetStaffResponse(c, q1) = GetStaffResponse(c, q2)

\* createStaff answers bodies b1 and b2 of caller c alike and stores the same
C22_SameCreate(c, b1, b2) ==
  /\ CreateStaffResult(c, b1) = CreateStaffResult(c, b2)
  /\ CreateStaffWrite(c, b1) = CreateStaffWrite(c, b2)

\* query q and body b without the given keys
C22_Without(q, keys) ==
  [k \in DOMAIN q |-> IF k \in keys THEN None ELSE q[k]]

\* C22 as claimed: two requests of the same branch manager that differ only
\* in their role or branchId value have the same outcome and resulting
\* state: each request is served like the one that names neither.
C22_Original ==
  \A c \in C22_Managers :
    /\ \A q \in QueryInputs :
         C22_SameListing(c, q, C22_Without(q, {"branchId", "role"}))
    /\ \A b \in BodyInputs :
         C22_SameCreate(c, b, C22_Without(b, {"branchId", "role"}))

\* C22: for a branch manager the branch of the dashboard, of the order and
\* staff listings and of a created staff member is the manager's
\* assignedBranch: two requests that differ only in their branchId value have
\* the same outcome and resulting state (each is served like the request
\* that names no branch), and the role value changes neither the dashboard
\* nor the order listing; in getStaff and createStaff the role value is the
\* staff role to filter by and to store.
C22_BranchFromCaller ==
  \A c \in C22_Managers :
    /\ \A q \in QueryInputs :
         /\ C22_SameListing(c, q, C22_Without(q, {"branchId"}))
         /\ GetBranchDashboardResponse(c, q)
              = GetBranchDashboardResponse(c, C22_Without(q, {"role"}))
         /\ GetBranchOrdersResponse(c, q)
              = GetBranchOrdersResponse(c, C22_Without(q, {"role"}))
    /\ \A b \in BodyInputs :
         /\ C22_SameCreate(c, b, C22_Without(b, {"branchId"}))
         /\ CreateStaffWrite(c, b).branch = c.assignedBranch
    /\ (last.op = "createStaff" /\ last.by = c /\ last.res = "OK") =>
         staff[NewStaffId].branch = c.assignedBranch

\* C22 witness: a manager of branch b1 has just created a staff member with a
\* request that names branch b2, while b2 has an order and staff of its own.
C22_Witness ==
  /\ last.op = "createStaff" /\ last.res = "OK"
  /\ last.by \in C22_Managers /\ last.by.assignedBranch = "b1"
  /\ last.req.branchId = "b2"
  /\ staff[NewStaffId].branch = "b1"
  /\ GetStaffResponse(last.by, [branchId |-> "b2", role |-> None]) # { "s3" }
  /\ order["o2"].branch = "b2"

----------------------------------------------------------------------------
\* C23

\* the step is the workload bookkeeping of assigning staff member s: an order
\* is appended to the currentOrders of s and s to that order's assignedStaff
C23_Bookkeeping(s) ==
  \E o \in DOMAIN order :
    /\ staff'[s].currentOrders = Append(staff[s].currentOrders, o)
    /\ order'[o].assignedStaff = Append(order[o].assignedStaff, s)

\* C23 as claimed: no createStaff, updateStaff or assignStaffToOrder request
\* changes the branch of an existing staff member, and a staff member's
\* currentOrders changes only in the bookkeeping of a staff assignment.
C23_BranchFixed ==
  [][ \A s \in DOMAIN staff :
        /\ staff'[s].branch = staff[s].branch
        /\ staff'[s].currentOrders # staff[s].currentOrders =>
             C23_Bookkeeping(s) ]_vars

----------------------------------------------------------------------------
\* C24

\* the workflow chain
C24_Chain ==
  << ORDER_STATUS.PLACED, ORDER_STATUS.ASSIGNED_TO_BRANCH,
     ORDER_STATUS.ASSIGNED_TO_LOGISTICS_PICKUP, ORDER_STATUS.PICKED,
     ORDER_STATUS.IN_PROCESS, ORDER_STATUS.READY,
     ORDER_STATUS.ASSIGNED_TO_LOGISTICS_DELIVERY,
     ORDER_STATUS.OUT_FOR_DELIVERY, ORDER_STATUS.DELIVERED >>

\* status to is the immediate successor of status from in the chain
C24_Successor(from, to) ==
  \E i \in 1..(Len(C24_Chain) - 1) : C24_Chain[i] = from /\ C24_Chain[i + 1] = to

\* C24: a request other than the admin updateOrderStatus either leaves the
\* status of every order as it was or moves the addressed order to the
\* immediate successor of its status in the chain; an accepted branch
\* assignment, logistics assignment or branch status update always does the
\* latter. So no such request skips a status, moves backwards, enters
\* CANCELLED or changes an order that is DELIVERED or CANCELLED.
C24_ChainOnly ==
  [][ (last' # last /\ last'.op \notin {None, "adminUpdateOrderStatus"}) =>
        \A o \in DOMAIN order :
          IF /\ o = last'.order
             /\ last'.res = "OK"
             /\ last'.op # "assignStaffToOrder"
          THEN C24_Successor(order[o].status, order'[o].status)
          ELSE order'[o].status = order[o].status ]_vars

\* C24 witness: the order has gone from PLACED to DELIVERED through every
\* status of the chain without any admin override.
C24_Witness ==
  /\ overrides = 0
  /\ last.op = "branchUpdateOrderStatus" /\ last.res = "OK"
  /\ order["o1"].status = ORDER_STATUS.DELIVERED
  /\ order["o1"].statusHistory = C24_Chain

----------------------------------------------------------------------------
\* C25

C25_SupportOps ==
  { "updateTicketStatus", "supportAddMessageToTicket", "resolveTicket",
    "escalateTicket", "assignTicket" }

\* C25 as claimed: a support request by an agent on a ticket assigned to
\* somebody else is answered FORBIDDEN and leaves the ticket as it was, and
\* only an admin's assignTicket request is accepted.
C25_AgentIsolation ==
  [][ (last' # last /\ last'.op \in C25_SupportOps) =>
        /\ \A t \in DOMAIN ticket \cap {last'.ticket} :
             AgentRefused(last'.by, ticket[t]) =>
               /\ last'.res = "FORBIDDEN"
               /\ ticket'[t] = ticket[t]
        /\ (last'.op = "assignTicket" /\ last'.res = "OK") =>
             user[last'.by].role = USER_ROLES.ADMIN ]_vars

----------------------------------------------------------------------------
\* C26

\* C26: an accepted rateTicketResolution request comes from the customer who
\* raised the ticket, finds the ticket RESOLVED and without a rating, stores
\* a rating between 1 and 5 and closes the ticket; and no request of any
\* kind changes a rating once it is stored, also after a support status
\* update has moved the ticket back to RESOLVED.
C26_RatedOnce ==
  [][ \A t \in DOMAIN ticket :
        /\ ticket[t].rating # 0 => ticket'[t].rating = ticket[t].rating
        /\ ( /\ last' # last
             /\ last'.op = "rateTicketResolution"
             /\ last'.ticket = t
             /\ last'.res = "OK" ) =>
               /\ ticket[t].raisedBy = last'.by
               /\ ticket[t].status = TICKET_STATUS.RESOLVED
               /\ ticket[t].rating = 0
               /\ ticket'[t].rating \in 1..5
               /\ ticket'[t].status = TICKET_STATUS.CLOSED
        /\ ticket'[t].rating # ticket[t].rating =>
             (last'.op = "rateTicketResolution" /\ last'.res = "OK") ]_vars

\* C26 witness: a rated ticket has been moved back to RESOLVED by a support
\* status update and its raiser's new rating has just been refused.
C26_Witness ==
  /\ last.op = "rateTicketResolution" /\ last.res = "ALREADY_RATED"
  /\ ticket["t1"].status = TICKET_STATUS.RESOLVED
  /\ ticket["t1"].rating = 5
  /\ last.by = ticket["t1"].raisedBy

----------------------------------------------------------------------------
\* C27

\* ticket t after the step is ticket t before it with one more message, a
\* non-internal one sent by c, and with the given status
C27_Appended(t, c, status) ==
  ticket'[t] = [ticket[t] EXCEPT
                  !.messages = Append(@, [sender |-> c, isInternal |-> FALSE]),
                  !.status = status]

\* C27: a customer's addMessageToTicket request changes no ticket but the
\* addressed one, and that one only when the caller raised it: a CLOSED
\* ticket is answered TICKET_CLOSED and kept as it is, a RESOLVED ticket
\* gets the message and becomes IN_PROGRESS, a ticket in any other status
\* gets the message and keeps its status.
C27_CustomerMessage ==
  [][ (last' # last /\ last'.op = "customerAddMessageToTicket") =>
        \A t \in DOMAIN ticket :
          IF t # last'.ticket \/ ticket[t].raisedBy # last'.by
          THEN ticket'[t] = ticket[t]
          ELSE IF ticket[t].status = TICKET_STATUS.CLOSED
          THEN last'.res.code = "TICKET_CLOSED" /\ ticket'[t] = ticket[t]
          ELSE IF ticket[t].status = TICKET_STATUS.RESOLVED
          THEN C27_Appended(t, last'.by, TICKET_STATUS.IN_PROGRESS)
          ELSE C27_Appended(t, last'.by, ticket[t].status) ]_vars

\* C27 witness: the customer has just written on a ticket that an agent had
\* answered and resolved, and the ticket is in progress again.
C27_Witness ==
  /\ last.op = "customerAddMessageToTicket"
  /\ last.by = "c1" /\ last.ticket = "t1"
  /\ ticket["t1"].status = TICKET_STATUS.IN_PROGRESS
  /\ ticket["t1"].assignedTo = None
  /\ Len(ticket["t1"].messages) = 2
  /\ ticket["t1"].messages[2].sender = "c1"

----------------------------------------------------------------------------
\* C28

\* the message lists a ticket may hold instead of its own
C28_Messages == [sender : {"c1", "a1"}, isInternal : BOOLEAN]

C28_MessageSeqs ==
  UNION { [1..n -> C28_Messages] : n \in 0..MaxMessages }

\* the ticket collections that differ from the stored one only in the
\* internal messages of one ticket
C28_Variants ==
  UNION { { [ticket EXCEPT ![t].messages = m] :
              m \in { x \in C28_MessageSeqs :
                        FilterInternal(x) = FilterInternal(ticket[t].messages) } } :
          t \in DOMAIN ticket }

\* two responses of a customer route are the same
C28_Same(r1, r2) ==
  r1.code = r2.code /\ (r1.code = "OK" => r1.body = r2.body)

\* no message of the sequence is internal
C28_NoneInternal(messages) ==
  \A i \in 1..Len(messages) : ~messages[i].isInternal

\* C28: the response of getTicketById and of the customer addMessageToTicket
\* holds no internal message and that of getCustomerTickets holds no
\* messages at all; every stored message sent by a customer is non-internal;
\* and on two ticket collections that differ only in internal messages each
\* of the three routes answers every customer alike.
C28_InternalHidden ==
  /\ (last.op \in {"getTicketById", "customerAddMessageToTicket"}
        /\ last.res.code = "OK") =>
       C28_NoneInternal(last.res.body.messages)
  /\ last.op = "getCustomerTickets" =>
       \A e \in last.res.body : "messages" \notin DOMAIN e
  /\ \A t \in DOMAIN ticket : \A i \in 1..Len(ticket[t].messages) :
       ticket[t].messages[i].sender \in CustomerCallers =>
         ~ticket[t].messages[i].isInternal
  /\ \A tk \in C28_Variants : \A c \in CustomerCallers :
       /\ C28_Same(GetCustomerTicketsResponseIn(tk, c),
                   GetCustomerTicketsResponseIn(ticket, c))
       /\ \A t \in TicketInputs \cup DOMAIN ticket :
            /\ C28_Same(GetTicketByIdResponseIn(tk, c, t),
                        GetTicketByIdResponseIn(ticket, c, t))
            /\ C28_Same(CustomerAddMessageResponseIn(tk, c, t),
                        CustomerAddMessageResponseIn(ticket, c, t))

\* C28 witness: the customer has just written on a ticket that holds an
\* internal note of the agent, and the response lists one message only.
C28_Witness ==
  /\ last.op = "customerAddMessageToTicket" /\ last.res.code = "OK"
  /\ Len(ticket[last.ticket].messages) = 2
  /\ ticket[last.ticket].messages[1].isInternal
  /\ Len(last.res.body.messages) = 1

----------------------------------------------------------------------------
\* C29

\* user u is the manager of branch b exactly when u is a branch manager
\* assigned to b
C29_ManagerIff ==
  \A b \in DOMAIN branch : \A u \in DOMAIN user :
    branch[b].manager = u <=>
      (user[u].role = USER_ROLES.BRANCH_MANAGER /\ user[u].assignedBranch = b)

\* C29 as claimed: after every createBranch, createUser and updateUserRole
\* request the manager reference of each branch and the branch manager
\* assigned to it agree, and a rejected updateUserRole request leaves every
\* user and every branch as they were.
C29_ManagerConsistent ==
  [][ /\ C29_ManagerIff'
      /\ ( /\ last' # last
           /\ last'.op = "updateUserRole"
           /\ last'.res # "OK" ) => (user' = user /\ branch' = branch) ]_vars

----------------------------------------------------------------------------
\* C30

\* the accounts that hold a role other than customer after a step and did
\* not hold one before it
C30_NewPrivileged ==
  { u \in DOMAIN user' :
      /\ user'[u].role # USER_ROLES.CUSTOMER
      /\ u \in DOMAIN user => user[u].role = USER_ROLES.CUSTOMER }

\* C30 as claimed: an account gets a role other than customer only in a
\* createUser or updateUserRole request, so every account that register
\* creates has the role customer whatever role the request body names.
C30_RegisterCustomerOnly ==
  [][ C30_NewPrivileged # {} =>
        last'.op \in {"createUser", "updateUserRole"} ]_vars

====
